---- MODULE Spec2Model ----
(***************************************************************************)
(* A model of the auto-reply worker (worker/auto_reply.py): the polling    *)
(* loop with the direct-reply pipeline, the reactive inbound handler with  *)
(* the new-contact and the group-trigger pipelines, the quota counters and *)
(* the generation-backend fallback chain.                                  *)
(*                                                                         *)
(* Time is a discrete clock `now` counted in ticks of TickSec seconds;     *)
(* `today` is the current UTC date.  The store is modelled table by table: *)
(* a table keyed by peer is a function whose DOMAIN is the set of rows.    *)
(***************************************************************************)
EXTENDS Integers, Sequences, FiniteSets, TLC

(* ------------------------------ bounds -------------------------------- *)
MaxMsgs == 2
MaxTime == 2
MaxFaults == 1
MaxEvents == 3
MaxSyncs == 1
MaxStored == 12
MaxDailyLimit == 2
MaxChunks == 4
TickSec == 150

(* ------------------------- program constants -------------------------- *)
RecencyWindowSec == 300
BatchLimit == 10
DefaultMinIntervalSec == 60

FALLBACK_MESSAGE == "FALLBACK_MESSAGE"
NEW_CONTACT_TEMPLATE == "new_contact_template"

Peers == {1, 2}

\* the peers id sequence after the rows that exist at the start
FirstNewId == 3

Days == {0, 1}

\* the event handlers Telethon runs at the same time
Handlers == {1, 2}

\* the configured group chats
Chats == {1}

VARIABLES
    now,           \* clock, in ticks of TickSec seconds
    today,         \* current UTC date
    settings,      \* table settings (key -> value)
    rules,         \* table auto_reply_rules, one row per peer at most
    messages,      \* table messages; a message's id is its index
    reply_state,   \* table auto_reply_state (watermark, last reply time)
    reply_counts,  \* table reply_counts (daily and new-contact counters)
    poll,          \* the polling task: position and locals of process_auto_replies
    sent,          \* log of the transport: every send that returned success
    faults,        \* number of store failures injected so far
    wm_seen,       \* history: the highest watermark each peer ever had (0: none)
    peers,         \* table peers by tg_peer_id: the rows that exist (id, in_personal)
    handlers,      \* the running handle_new_message tasks: position and locals
    events,        \* number of inbound events delivered so far
    chat_triggers, \* table chat_triggers, one row per configured group chat
    fn,            \* a function under test: its arguments and its result
    personal_cache,\* the user ids of the Personal folder, as last fetched
    next_id,       \* the next value of the peers id sequence
    syncs,         \* number of Personal-folder refreshes so far
    rand,          \* the random-injection task: position and locals of random_chat_task
    chat_last,     \* who wrote the most recent message of each chat: "me", "other", "none"
    main,          \* main: its position, and which of its handles are open
    send_failed,   \* history: the messages whose direct reply failed to send
    handler_failed,\* history: the inbound events whose handler's send failed
    refresh_failed \* history: the last refresh_personal_cache kept the old cache

vars == <<now, today, settings, rules, messages, reply_state, reply_counts, poll, sent, faults, wm_seen, peers, handlers, events, chat_triggers, fn, personal_cache, next_id, syncs, rand, chat_last, main, send_failed, handler_failed, refresh_failed>>

(* ------------------------------ helpers ------------------------------- *)
Max(S) == CHOOSE x \in S : \A y \in S : y <= x

Min(S) == CHOOSE x \in S : \A y \in S : x <= y

RECURSIVE SortedSeq(_)
SortedSeq(S) == IF S = {} THEN <<>> ELSE <<Min(S)>> \o SortedSeq(S \ {Min(S)})

Take(s, n) == IF Len(s) <= n THEN s ELSE SubSeq(s, 1, n)

Upsert(table, key, row) ==
    [k \in DOMAIN table \cup {key} |-> IF k = key THEN row ELSE table[k]]

(* ---------------------- generation backends --------------------------- *)
(* What one HTTP exchange with a backend can come to.                      *)
LocalOutcomes == {"text", "empty", "missing", "status", "refused", "timeout", "error"}

RemoteOutcomes == {"text", "empty", "no_content", "status", "timeout", "error"}

Engines == {"local", "claude", "other"}

None == "None"
LOCAL_TEXT == "local text"
REMOTE_TEXT == "remote text"

\* Python truthiness of an Optional[str]
Truthy(x) == x # None /\ x # ""

\* generate_local_response: the "response" field of a 200 answer, else None
GenerateLocalResponse(lo) ==
    CASE lo = "text"  -> LOCAL_TEXT
      [] lo = "empty" -> ""
      [] OTHER        -> None

\* generate_claude_response: no request without an API key; the text of the
\* first content block of a 200 answer, else None
GenerateClaudeResponse(has_key, ro) ==
    IF ~has_key THEN [text |-> None, http |-> 0]
    ELSE [text |-> CASE ro = "text"  -> REMOTE_TEXT
                     [] ro = "empty" -> ""
                     [] OTHER        -> None,
          http |-> 1]

\* generate_ai_response: the text returned, the backend functions called in
\* order, and the number of HTTP requests made to each backend
GenerateAiResponseMissingFallback(engine, has_key, lo, ro) ==
    IF engine = "claude"
    THEN LET c == GenerateClaudeResponse(has_key, ro)
         IN  [text |-> c.text, calls |-> <<"claude">>, local_http |-> 0, remote_http |-> c.http]
    ELSE [text |-> IF Truthy(GenerateLocalResponse(lo)) THEN GenerateLocalResponse(lo) ELSE None,
          calls |-> <<"local">>, local_http |-> 1, remote_http |-> 0]

\* the engine "claude" with the local backend as its fallback
GenerateAiResponseRemoteThenLocal(engine, has_key, lo, ro) ==
    LET c == GenerateClaudeResponse(has_key, ro)
        response == GenerateLocalResponse(lo)
    IN  IF engine = "claude" /\ Truthy(c.text)
        THEN [text |-> c.text, calls |-> <<"claude">>, local_http |-> 0, remote_http |-> c.http]
        ELSE IF engine = "claude"
        THEN [text |-> IF Truthy(response) THEN response ELSE None,
              calls |-> <<"claude", "local">>, local_http |-> 1, remote_http |-> c.http]
        ELSE IF Truthy(response)
        THEN [text |-> response, calls |-> <<"local">>, local_http |-> 1, remote_http |-> 0]
        ELSE [text |-> IF Truthy(c.text) THEN c.text ELSE None,
              calls |-> <<"local", "claude">>, local_http |-> 1, remote_http |-> c.http]

GenerateAiResponse(engine, has_key, lo, ro) ==
    IF engine = "claude"
    THEN LET c == GenerateClaudeResponse(has_key, ro)
         IN  [text |-> c.text, calls |-> <<"claude">>, local_http |-> 0, remote_http |-> c.http]
    ELSE LET response == GenerateLocalResponse(lo)
         IN  IF Truthy(response)
             THEN [text |-> response, calls |-> <<"local">>, local_http |-> 1, remote_http |-> 0]
             ELSE LET c == GenerateClaudeResponse(has_key, ro)
                  IN  [text |-> IF Truthy(c.text) THEN c.text ELSE None,
                       calls |-> <<"local", "claude">>,
                       local_http |-> 1, remote_http |-> c.http]

(* ------------------------------ store --------------------------------- *)
\* rows of auto_reply_rules; a NULL reply_mode or min_interval_sec is COALESCEd
NoRule == [present |-> FALSE, enabled |-> FALSE, reply_mode |-> "ai",
           template |-> "", min_interval_sec |-> DefaultMinIntervalSec]

Rule(enabled, mode, template, interval) ==
    [present |-> TRUE, enabled |-> enabled, reply_mode |-> mode,
     template |-> template, min_interval_sec |-> interval]

\* what the collector stores: an inbound or an outbound text message
ArriveKinds == {[from_me |-> FALSE, text |-> "hi"], [from_me |-> TRUE, text |-> "hi"]}

\* the rules the control surface has set
DirectRules ==
    (1 :> Rule(TRUE, "template", "Away", DefaultMinIntervalSec)) @@
    (2 :> Rule(TRUE, "ai", "", 0))

ElapsedSec(t) == (now - t) * TickSec

\* is_auto_reply_enabled / is_ai_enabled: the row exists and its value is '1'
IsAutoReplyEnabled == settings.auto_reply_enabled = "1"

IsAiEnabled == settings.ai_enabled = "1"

(* ----------------------- direct-reply pipeline ------------------------ *)
\* The WHERE clause of get_candidates_for_reply for message id i
IsCandidateIgnoringWatermark(i) ==
    LET m == messages[i]
        r == rules[m.peer_id]
    IN  /\ m.peer_id \in DOMAIN peers
        /\ r.present /\ r.enabled
        /\ m.from_me = FALSE
        /\ ElapsedSec(m.date) < RecencyWindowSec
        /\ r.reply_mode # "off"
        /\ \/ m.peer_id \notin DOMAIN reply_state
           \/ ElapsedSec(reply_state[m.peer_id].last_reply_time) >= r.min_interval_sec

IsCandidate(i) ==
    LET m == messages[i]
        r == rules[m.peer_id]
    IN  /\ m.peer_id \in DOMAIN peers
        /\ r.present /\ r.enabled
        /\ m.from_me = FALSE
        /\ ElapsedSec(m.date) < RecencyWindowSec
        /\ r.reply_mode # "off"
        /\ \/ m.peer_id \notin DOMAIN reply_state
           \/ i > reply_state[m.peer_id].last_message_id
        /\ \/ m.peer_id \notin DOMAIN reply_state
           \/ ElapsedSec(reply_state[m.peer_id].last_reply_time) >= r.min_interval_sec

CandidateRow(i) ==
    [message_id |-> i, peer_id |-> messages[i].peer_id,
     message_text |-> messages[i].text,
     template |-> rules[messages[i].peer_id].template,
     reply_mode |-> rules[messages[i].peer_id].reply_mode]

\* the query without its LIMIT
GetCandidatesNoLimit ==
    LET ids == SortedSeq({i \in 1..Len(messages) : IsCandidate(i)})
    IN  [k \in 1..Len(ids) |-> CandidateRow(ids[k])]

\* get_candidates_for_reply: ORDER BY m.id ASC LIMIT 10
GetCandidatesForReply ==
    LET ids == SortedSeq({i \in 1..Len(messages) : IsCandidate(i)})
        top == Take(ids, BatchLimit)
    IN  [k \in 1..Len(top) |-> CandidateRow(top[k])]

\* main while client.run_until_disconnected() is pending: the client is
\* connected, the HTTP session and the connection pool are open
MainRunning == [pc |-> "running", transport |-> TRUE, http |-> TRUE, store |-> TRUE]

PollIdle == [pc |-> "idle", batch |-> <<>>, i |-> 0, current_count |-> 0, text |-> None]

Candidate == poll.batch[poll.i]

\* the for loop of process_auto_replies goes on to the next candidate, or returns
PollNext ==
    IF poll.i < Len(poll.batch)
    THEN [poll EXCEPT !.pc = "limit", !.i = poll.i + 1, !.current_count = 0, !.text = None]
    ELSE PollIdle

\* process_auto_replies up to the candidate query
PollFetch ==
    /\ poll.pc \in {"idle", "synced"}
    /\ LET candidates == GetCandidatesForReply
       IN  poll' = IF IsAutoReplyEnabled /\ Len(candidates) > 0
                   THEN [pc |-> "limit", batch |-> candidates, i |-> 1, current_count |-> 0,
                         text |-> None]
                   ELSE PollIdle
    /\ UNCHANGED <<now, today, settings, rules, messages, reply_state, reply_counts,
                   sent, faults, wm_seen, peers, handlers, events, chat_triggers, fn,
                   personal_cache, next_id, syncs, rand, chat_last, main, send_failed,
                   handler_failed, refresh_failed>>

\* check_and_update_daily_limit, first statement: the upsert that resets the
\* counter on a new day and returns it
DailyUpsertRowNoReset(p) ==
    IF p \in DOMAIN reply_counts
    THEN [reply_counts[p] EXCEPT !.last_reply_date = today]
    ELSE [daily_replies |-> 0, new_contact_replies |-> 0, last_reply_date |-> today]

DailyUpsertRow(p) ==
    IF p \in DOMAIN reply_counts
    THEN [reply_counts[p] EXCEPT
            !.daily_replies = IF reply_counts[p].last_reply_date # today
                              THEN 0 ELSE reply_counts[p].daily_replies,
            !.last_reply_date = today]
    ELSE [daily_replies |-> 0, new_contact_replies |-> 0, last_reply_date |-> today]

\* check_and_update_daily_limit counting the attempt before it compares
PollCheckDailyCountsFirst ==
    /\ poll.pc = "limit"
    /\ LET p   == Candidate.peer_id
           row == DailyUpsertRow(p)
       IN  /\ reply_counts' = Upsert(reply_counts, p,
                                     [row EXCEPT !.daily_replies = @ + 1])
           /\ poll' = IF row.daily_replies >= settings.daily_max_replies
                      THEN PollNext
                      ELSE [poll EXCEPT !.pc = "resolve",
                                        !.current_count = row.daily_replies]
    /\ UNCHANGED <<now, today, settings, rules, messages, reply_state, sent, faults,
                   wm_seen, peers, handlers, events, chat_triggers, fn, personal_cache,
                   next_id, syncs, rand, chat_last, main, send_failed, handler_failed,
                   refresh_failed>>

PollCheckDaily ==
    /\ poll.pc = "limit"
    /\ LET p   == Candidate.peer_id
           row == DailyUpsertRow(p)
       IN  /\ reply_counts' = Upsert(reply_counts, p, row)
           /\ poll' = IF row.daily_replies >= settings.daily_max_replies
                      THEN PollNext
                      ELSE [poll EXCEPT !.pc = "incr",
                                        !.current_count = row.daily_replies]
    /\ UNCHANGED <<now, today, settings, rules, messages, reply_state, sent, faults,
                   wm_seen, peers, handlers, events, chat_triggers, fn, personal_cache,
                   next_id, syncs, rand, chat_last, main, send_failed, handler_failed,
                   refresh_failed>>

\* check_and_update_daily_limit, second statement: the increment
PollIncrDaily ==
    /\ poll.pc = "incr"
    /\ LET p == Candidate.peer_id
       IN  reply_counts' =
             IF p \in DOMAIN reply_counts
             THEN [reply_counts EXCEPT ![p].daily_replies = @ + 1]
             ELSE reply_counts
    /\ poll' = [poll EXCEPT !.pc = "resolve"]
    /\ UNCHANGED <<now, today, settings, rules, messages, reply_state, sent, faults,
                   wm_seen, peers, handlers, events, chat_triggers, fn, personal_cache,
                   next_id, syncs, rand, chat_last, main, send_failed, handler_failed,
                   refresh_failed>>

\* the reply text by reply_mode (process_auto_replies, the if/elif chain)
TemplateOrFallback(c) == IF c.template # "" THEN c.template ELSE FALLBACK_MESSAGE

\* the branch that calls generate_ai_response
UsesBackend(c, ai_enabled) ==
    c.reply_mode = "ai" /\ ai_enabled /\ c.message_text # ""

\* the mode chain without its template branch
ResolveTextNoTemplateBranch(c, ai_enabled, gen) ==
    IF ai_enabled /\ c.message_text # ""
    THEN IF Truthy(gen.text) THEN gen.text ELSE FALLBACK_MESSAGE
    ELSE TemplateOrFallback(c)

ResolveText(c, ai_enabled, gen) ==
    IF c.reply_mode = "template" THEN TemplateOrFallback(c)
    ELSE IF UsesBackend(c, ai_enabled)
         THEN IF Truthy(gen.text) THEN gen.text ELSE FALLBACK_MESSAGE
         ELSE TemplateOrFallback(c)

PollResolve ==
    /\ poll.pc = "resolve"
    /\ \E lo \in LocalOutcomes, ro \in RemoteOutcomes :
         LET gen == GenerateAiResponse(settings.ai_engine, settings.has_key, lo, ro)
         IN  poll' = [poll EXCEPT !.pc = "send",
                                  !.text = ResolveText(Candidate, IsAiEnabled, gen)]
    /\ UNCHANGED <<now, today, settings, rules, messages, reply_state, reply_counts,
                   sent, faults, wm_seen, peers, handlers, events, chat_triggers, fn,
                   personal_cache, next_id, syncs, rand, chat_last, main, send_failed,
                   handler_failed, refresh_failed>>

\* send_reply returned True
PollSendOk ==
    /\ poll.pc = "send"
    /\ main.transport
    /\ sent' = Append(sent, [pipeline |-> "direct", peer_id |-> Candidate.peer_id,
                             message_id |-> Candidate.message_id,
                             text |-> poll.text, time |-> now])
    /\ poll' = [poll EXCEPT !.pc = "commit"]
    /\ UNCHANGED <<now, today, settings, rules, messages, reply_state, reply_counts,
                   faults, wm_seen, peers, handlers, events, chat_triggers, fn,
                   personal_cache, next_id, syncs, rand, chat_last, main, send_failed,
                   handler_failed, refresh_failed>>

\* send_reply returned False: the transport raised
PollSendFailAdvances ==
    /\ poll.pc = "send"
    /\ reply_state' = Upsert(reply_state, Candidate.peer_id,
                             [last_reply_time |-> now, last_message_id |-> Candidate.message_id])
    /\ send_failed' = send_failed \cup {Candidate.message_id}
    /\ poll' = PollNext
    /\ UNCHANGED <<now, today, settings, rules, messages, reply_counts, sent, faults,
                   wm_seen, peers, handlers, events, chat_triggers, fn, personal_cache,
                   next_id, syncs, rand, chat_last, main, handler_failed, refresh_failed>>

PollSendFail ==
    /\ poll.pc = "send"
    /\ send_failed' = send_failed \cup {Candidate.message_id}
    /\ poll' = PollNext
    /\ UNCHANGED <<now, today, settings, rules, messages, reply_state, reply_counts,
                   sent, faults, wm_seen, peers, handlers, events, chat_triggers, fn,
                   personal_cache, next_id, syncs, rand, chat_last, main,
                   handler_failed, refresh_failed>>

\* update_reply_state: the upsert sets the watermark to the message replied to
UpdateReplyStateTimeOnly(p, message_id) ==
    Upsert(reply_state, p,
           [last_reply_time |-> now,
            last_message_id |-> IF p \in DOMAIN reply_state
                                THEN reply_state[p].last_message_id
                                ELSE message_id])

UpdateReplyState(p, message_id) ==
    Upsert(reply_state, p, [last_reply_time |-> now, last_message_id |-> message_id])

PollCommit ==
    /\ poll.pc = "commit"
    /\ reply_state' = UpdateReplyState(Candidate.peer_id, Candidate.message_id)
    /\ wm_seen' = [wm_seen EXCEPT ![Candidate.peer_id] =
                      Max({@, reply_state'[Candidate.peer_id].last_message_id})]
    /\ poll' = PollNext
    /\ UNCHANGED <<now, today, settings, rules, messages, reply_counts, sent, faults,
                   peers, handlers, events, chat_triggers, fn, personal_cache, next_id,
                   syncs, rand, chat_last, main, send_failed, handler_failed,
                   refresh_failed>>

\* update_reply_state raised (store unreachable): the exception leaves
\* process_auto_replies and is caught in polling_loop; the cycle is over
PollCommitFault ==
    /\ poll.pc = "commit"
    /\ faults < MaxFaults
    /\ faults' = faults + 1
    /\ poll' = PollIdle
    /\ UNCHANGED <<now, today, settings, rules, messages, reply_state, reply_counts,
                   sent, wm_seen, peers, handlers, events, chat_triggers, fn,
                   personal_cache, next_id, syncs, rand, chat_last, main, send_failed,
                   handler_failed, refresh_failed>>

(* ------------------------ new-contact pipeline ------------------------ *)
HandlerIdle ==
    [pc |-> "idle", tg_peer_id |-> 0, peer_id |-> 0, msg |-> 0, mode |-> None, text |-> None]

HasRule(p) == rules[p].present /\ rules[p].enabled

(* ------------------- Personal-folder synchronisation ------------------ *)
\* polling_loop: the cache is stale; refresh_personal_cache fetches the folder
\* (any set of users), or fails or finds no folder and keeps the old cache
PollRefresh ==
    /\ poll.pc = "idle"
    /\ syncs < MaxSyncs
    /\ syncs' = syncs + 1
    /\ \E folder \in SUBSET Peers, ok \in BOOLEAN :
         /\ personal_cache' = IF ok THEN folder ELSE personal_cache
         /\ refresh_failed' = ~ok
    /\ poll' = [poll EXCEPT !.pc = "sync_reset"]
    /\ UNCHANGED <<now, today, settings, rules, messages, reply_state, reply_counts,
                   sent, faults, wm_seen, peers, handlers, events, chat_triggers, fn,
                   next_id, rand, chat_last, main, send_failed, handler_failed>>

\* sync_personal_to_db: skipped on an empty cache; UPDATE peers SET in_personal = false
PollSyncReset ==
    /\ poll.pc = "sync_reset"
    /\ IF personal_cache = {}
       THEN /\ poll' = [poll EXCEPT !.pc = "synced"]
            /\ peers' = peers
       ELSE /\ poll' = [poll EXCEPT !.pc = "sync_set"]
            /\ peers' = [p \in DOMAIN peers |-> [peers[p] EXCEPT !.in_personal = FALSE]]
    /\ UNCHANGED <<now, today, settings, rules, messages, reply_state, reply_counts,
                   sent, faults, wm_seen, handlers, events, chat_triggers, fn,
                   personal_cache, next_id, syncs, rand, chat_last, main, send_failed,
                   handler_failed, refresh_failed>>

\* UPDATE peers SET in_personal = true WHERE tg_peer_id = ANY(personal_cache)
PollSyncSet ==
    /\ poll.pc = "sync_set"
    /\ peers' = [p \in DOMAIN peers |->
                   IF p \in personal_cache THEN [peers[p] EXCEPT !.in_personal = TRUE]
                   ELSE peers[p]]
    /\ poll' = [poll EXCEPT !.pc = "sync_delete"]
    /\ UNCHANGED <<now, today, settings, rules, messages, reply_state, reply_counts,
                   sent, faults, wm_seen, handlers, events, chat_triggers, fn,
                   personal_cache, next_id, syncs, rand, chat_last, main, send_failed,
                   handler_failed, refresh_failed>>

\* the rows the DELETE of sync_personal_to_db leaves
PeersAfterDelete ==
    LET keep == {p \in DOMAIN peers : peers[p].in_personal \/ HasRule(p)}
    IN  [p \in keep |-> peers[p]]

\* DELETE FROM peers WHERE in_personal = false AND id NOT IN (enabled rules)
PollSyncDelete ==
    /\ poll.pc = "sync_delete"
    /\ peers' = PeersAfterDelete
    /\ poll' = [poll EXCEPT !.pc = "synced"]
    /\ UNCHANGED <<now, today, settings, rules, messages, reply_state, reply_counts,
                   sent, faults, wm_seen, handlers, events, chat_triggers, fn,
                   personal_cache, next_id, syncs, rand, chat_last, main, send_failed,
                   handler_failed, refresh_failed>>

\* a statement of sync_personal_to_db raised: caught inside it, which returns 0,
\* and polling_loop goes on to process_auto_replies
PollSyncFault ==
    /\ poll.pc \in {"sync_reset", "sync_set", "sync_delete"}
    /\ faults < MaxFaults
    /\ faults' = faults + 1
    /\ poll' = [poll EXCEPT !.pc = "synced"]
    /\ UNCHANGED <<now, today, settings, rules, messages, reply_state, reply_counts,
                   sent, wm_seen, peers, handlers, events, chat_triggers, fn,
                   personal_cache, next_id, syncs, rand, chat_last, main, send_failed,
                   handler_failed, refresh_failed>>

\* a statement of process_auto_replies other than update_reply_state raised
\* (settings, candidates, daily limit, history): caught by the except of
\* polling_loop, which sleeps and starts the next iteration
PollStoreFault ==
    /\ poll.pc \in {"idle", "synced", "limit", "incr", "resolve"}
    /\ faults < MaxFaults
    /\ faults' = faults + 1
    /\ poll' = PollIdle
    /\ UNCHANGED <<now, today, settings, rules, messages, reply_state, reply_counts,
                   sent, wm_seen, peers, handlers, events, chat_triggers, fn,
                   personal_cache, next_id, syncs, rand, chat_last, main, send_failed,
                   handler_failed, refresh_failed>>

\* handle_new_message, private branch: a message of user p arrives; a peer in
\* Personal or with an enabled rule is left to the polling loop
HLookup(h) ==
    /\ handlers[h].pc = "idle"
    /\ events < MaxEvents
    /\ events' = events + 1
    /\ \E p \in Peers :
         handlers' =
           IF p \in DOMAIN peers /\ (peers[p].in_personal \/ HasRule(p))
           THEN handlers
           ELSE [handlers EXCEPT ![h] = [HandlerIdle EXCEPT !.pc = "nc_upsert",
                                           !.tg_peer_id = p, !.msg = events + 1]]
    /\ UNCHANGED <<now, today, settings, rules, messages, reply_state, reply_counts,
                   poll, sent, faults, wm_seen, peers, chat_triggers, fn,
                   personal_cache, next_id, syncs, rand, chat_last, main, send_failed,
                   handler_failed, refresh_failed>>

\* get_new_contact_settings: the stored value, 'off' when the key is not set
GetNewContactMode ==
    IF settings.new_contact_mode = None THEN "off" ELSE settings.new_contact_mode

\* process_new_contact without the test of the mode
HNcUpsertAnyMode(h) ==
    /\ handlers[h].pc = "nc_upsert"
    /\ LET p    == handlers[h].tg_peer_id
           mode == GetNewContactMode
       IN  IF p \in DOMAIN peers
           THEN /\ handlers' = [handlers EXCEPT ![h].pc = "nc_limit", ![h].mode = mode,
                                                ![h].peer_id = peers[p].id]
                /\ peers' = peers
                /\ next_id' = next_id
           ELSE /\ handlers' = [handlers EXCEPT ![h].pc = "nc_limit", ![h].mode = mode,
                                                ![h].peer_id = next_id]
                /\ peers' = Upsert(peers, p, [id |-> next_id, in_personal |-> FALSE])
                /\ next_id' = next_id + 1
    /\ UNCHANGED <<now, today, settings, rules, messages, reply_state, reply_counts,
                   poll, sent, faults, wm_seen, events, chat_triggers, fn,
                   personal_cache, syncs, rand, chat_last, main, send_failed,
                   handler_failed, refresh_failed>>

\* process_new_contact: the mode is read, the peer row is created if missing
\* (INSERT ... ON CONFLICT (tg_peer_id) DO UPDATE ... RETURNING id)
HNcUpsert(h) ==
    /\ handlers[h].pc = "nc_upsert"
    /\ LET p    == handlers[h].tg_peer_id
           mode == GetNewContactMode
       IN  IF mode = "off"
           THEN /\ handlers' = [handlers EXCEPT ![h] = HandlerIdle]
                /\ peers' = peers
                /\ next_id' = next_id
           ELSE IF p \in DOMAIN peers
           THEN /\ handlers' = [handlers EXCEPT ![h].pc = "nc_limit", ![h].mode = mode,
                                                ![h].peer_id = peers[p].id]
                /\ peers' = peers
                /\ next_id' = next_id
           ELSE /\ handlers' = [handlers EXCEPT ![h].pc = "nc_limit", ![h].mode = mode,
                                                ![h].peer_id = next_id]
                /\ peers' = Upsert(peers, p, [id |-> next_id, in_personal |-> FALSE])
                /\ next_id' = next_id + 1
    /\ UNCHANGED <<now, today, settings, rules, messages, reply_state, reply_counts,
                   poll, sent, faults, wm_seen, events, chat_triggers, fn,
                   personal_cache, syncs, rand, chat_last, main, send_failed,
                   handler_failed, refresh_failed>>

\* check_new_contact_limit: a read of the lifetime counter
CheckNewContactLimit(p) ==
    ~(p \in DOMAIN reply_counts
      /\ reply_counts[p].new_contact_replies >= settings.new_contact_max_replies)

HNcLimit(h) ==
    /\ handlers[h].pc = "nc_limit"
    /\ handlers' = IF CheckNewContactLimit(handlers[h].peer_id)
                   THEN [handlers EXCEPT ![h].pc = "nc_resolve"]
                   ELSE [handlers EXCEPT ![h] = HandlerIdle]
    /\ UNCHANGED <<now, today, settings, rules, messages, reply_state, reply_counts,
                   poll, sent, faults, wm_seen, peers, events, chat_triggers, fn,
                   personal_cache, next_id, syncs, rand, chat_last, main, send_failed,
                   handler_failed, refresh_failed>>

\* process_new_contact: the reply text by new_contact_mode; None: return False
NewContactTextNoFallback(mode, gen) ==
    IF mode = "template" THEN NEW_CONTACT_TEMPLATE
    ELSE IF mode = "ai" /\ Truthy(gen.text) THEN gen.text
    ELSE None

NewContactText(mode, gen) ==
    IF mode = "template" THEN NEW_CONTACT_TEMPLATE
    ELSE IF mode = "ai"
         THEN IF Truthy(gen.text) THEN gen.text ELSE NEW_CONTACT_TEMPLATE
         ELSE None

HNcResolve(h) ==
    /\ handlers[h].pc = "nc_resolve"
    /\ \E lo \in LocalOutcomes, ro \in RemoteOutcomes :
         LET gen  == GenerateAiResponse(settings.ai_engine, settings.has_key, lo, ro)
             text == NewContactText(handlers[h].mode, gen)
         IN  handlers' = IF text = None
                         THEN [handlers EXCEPT ![h] = HandlerIdle]
                         ELSE [handlers EXCEPT ![h].pc = "nc_send", ![h].text = text]
    /\ UNCHANGED <<now, today, settings, rules, messages, reply_state, reply_counts,
                   poll, sent, faults, wm_seen, peers, events, chat_triggers, fn,
                   personal_cache, next_id, syncs, rand, chat_last, main, send_failed,
                   handler_failed, refresh_failed>>

HNcSendOk(h) ==
    /\ handlers[h].pc = "nc_send"
    /\ main.transport
    /\ sent' = Append(sent, [pipeline |-> "new_contact", peer_id |-> handlers[h].tg_peer_id,
                             message_id |-> handlers[h].msg,
                             text |-> handlers[h].text, time |-> now])
    /\ handlers' = [handlers EXCEPT ![h].pc = "nc_incr"]
    /\ UNCHANGED <<now, today, settings, rules, messages, reply_state, reply_counts,
                   poll, faults, wm_seen, peers, events, chat_triggers, fn,
                   personal_cache, next_id, syncs, rand, chat_last, main, send_failed,
                   handler_failed, refresh_failed>>

HNcSendFail(h) ==
    /\ handlers[h].pc = "nc_send"
    /\ handlers' = [handlers EXCEPT ![h] = HandlerIdle]
    /\ handler_failed' = handler_failed \cup {[pipeline |-> "new_contact", msg |-> handlers[h].msg]}
    /\ UNCHANGED <<now, today, settings, rules, messages, reply_state, reply_counts,
                   poll, sent, faults, wm_seen, peers, events, chat_triggers, fn,
                   personal_cache, next_id, syncs, rand, chat_last, main, send_failed,
                   refresh_failed>>

\* increment_new_contact_reply: one upsert
IncrementNewContactRow(p) ==
    IF p \in DOMAIN reply_counts
    THEN [new_contact_replies |-> reply_counts[p].new_contact_replies + 1,
          daily_replies |-> IF reply_counts[p].last_reply_date # today
                            THEN 1 ELSE reply_counts[p].daily_replies + 1,
          last_reply_date |-> today]
    ELSE [new_contact_replies |-> 1, daily_replies |-> 1, last_reply_date |-> today]

HNcIncr(h) ==
    /\ handlers[h].pc = "nc_incr"
    /\ reply_counts' = Upsert(reply_counts, handlers[h].peer_id,
                              IncrementNewContactRow(handlers[h].peer_id))
    /\ handlers' = [handlers EXCEPT ![h] = HandlerIdle]
    /\ UNCHANGED <<now, today, settings, rules, messages, reply_state, poll, sent,
                   faults, wm_seen, peers, events, chat_triggers, fn, personal_cache,
                   next_id, syncs, rand, chat_last, main, send_failed, handler_failed,
                   refresh_failed>>

(* ------------------------------ strings ------------------------------- *)
\* A string is a sequence of one-character strings.
LowerChar(c) == CASE c = "A" -> "a" [] c = "B" -> "b" [] OTHER -> c

Lower(s) == [i \in 1..Len(s) |-> LowerChar(s[i])]

RECURSIVE LStrip(_)
LStrip(s) == IF s # <<>> /\ Head(s) = " " THEN LStrip(Tail(s)) ELSE s

RECURSIVE RStrip(_)
RStrip(s) == IF s # <<>> /\ s[Len(s)] = " " THEN RStrip(SubSeq(s, 1, Len(s) - 1)) ELSE s

Strip(s) == RStrip(LStrip(s))

\* str.split(','): the pieces between the commas, empty ones included
RECURSIVE SplitComma(_, _)
SplitComma(s, piece) ==
    IF s = <<>> THEN <<piece>>
    ELSE IF Head(s) = "," THEN <<piece>> \o SplitComma(Tail(s), <<>>)
    ELSE SplitComma(Tail(s), Append(piece, Head(s)))

\* sub in s
Contains(sub, s) ==
    \E i \in 1..(Len(s) - Len(sub) + 1) : SubSeq(s, i, i + Len(sub) - 1) = sub

\* the list with its empty entries kept
KeywordListKeepEmpty(keywords) ==
    LET pieces == SplitComma(keywords, <<>>)
    IN  {Lower(Strip(pieces[i])) : i \in 1..Len(pieces)}

\* [kw.strip().lower() for kw in keywords.split(',') if kw.strip()]
KeywordList(keywords) ==
    LET pieces == SplitComma(keywords, <<>>)
    IN  {Lower(Strip(pieces[i])) : i \in {j \in 1..Len(pieces) : Strip(pieces[j]) # <<>>}}

KeywordMatch(keywords, message_text) ==
    \E kw \in KeywordList(keywords) : Contains(kw, Lower(message_text))

(* ------------------------ group-trigger pipeline ---------------------- *)
NoTime == -1

ChatRow(mention, reply, kw, keywords, cooldown, lrt) ==
    [enabled |-> TRUE, trigger_mention |-> mention, trigger_reply |-> reply,
     trigger_keywords |-> kw, trigger_random |-> FALSE, keywords |-> keywords,
     cooldown_sec |-> cooldown, daily_limit |-> 2, daily_count |-> 0,
     last_count_reset |-> 0, last_random_time |-> lrt,
     random_interval_min |-> 1, random_interval_max |-> 2]

\* what an inbound group message can be: a keyword match, a mention, a reply
\* to the account, none of these
ChatEventKinds ==
    { [text |-> <<"x", "A">>, is_mention |-> FALSE, is_reply_to_me |-> FALSE],
      [text |-> <<"x">>, is_mention |-> TRUE, is_reply_to_me |-> FALSE],
      [text |-> <<"x">>, is_mention |-> FALSE, is_reply_to_me |-> TRUE],
      [text |-> <<"x">>, is_mention |-> FALSE, is_reply_to_me |-> FALSE] }

\* the cooldown test of check_chat_triggers, on the row read at its start
CooldownActive(tr) ==
    /\ tr.cooldown_sec # 0
    /\ tr.last_random_time # NoTime
    /\ ElapsedSec(tr.last_random_time) < tr.cooldown_sec

\* the triggers by priority
TriggerReasonKeywordFirst(tr, message_text, is_mention, is_reply_to_me) ==
    IF tr.trigger_keywords /\ tr.keywords # <<>> /\ KeywordMatch(tr.keywords, message_text)
    THEN "keyword"
    ELSE IF tr.trigger_mention /\ is_mention THEN "mention"
    ELSE IF tr.trigger_reply /\ is_reply_to_me THEN "reply"
    ELSE None

TriggerReason(tr, message_text, is_mention, is_reply_to_me) ==
    IF tr.trigger_mention /\ is_mention THEN "mention"
    ELSE IF tr.trigger_reply /\ is_reply_to_me THEN "reply"
    ELSE IF tr.trigger_keywords /\ tr.keywords # <<>>
            /\ KeywordMatch(tr.keywords, message_text)
    THEN "keyword"
    ELSE None

\* check_chat_triggers, given the row get_chat_triggers returned (found: there
\* is an enabled row) and the answer of check_chat_limits
CheckChatTriggers(found, tr, limits_ok, message_text, is_mention, is_reply_to_me) ==
    IF ~found THEN None
    ELSE IF ~limits_ok THEN None
    ELSE IF CooldownActive(tr) THEN None
    ELSE TriggerReason(tr, message_text, is_mention, is_reply_to_me)

\* get_chat_triggers: the row of an enabled, configured chat
ChatFound(g) ==
    g \in DOMAIN chat_triggers /\ g \in DOMAIN peers /\ chat_triggers[g].enabled

\* handle_new_message, group branch: a message arrives in chat g and
\* check_chat_triggers reads the chat's row
HChatLookup(h) ==
    /\ handlers[h].pc = "idle"
    /\ events < MaxEvents
    /\ events' = events + 1
    /\ \E g \in Chats, ev \in ChatEventKinds :
         /\ chat_last' = [chat_last EXCEPT ![g] = "other"]
         /\ handlers' =
              IF ChatFound(g)
              THEN [handlers EXCEPT ![h] =
                      [pc |-> "g_limits", tg_peer_id |-> g, peer_id |-> g, msg |-> events + 1,
                       message_text |-> ev.text, is_mention |-> ev.is_mention,
                       is_reply_to_me |-> ev.is_reply_to_me,
                       triggers |-> chat_triggers[g], text |-> None]]
              ELSE handlers
    /\ UNCHANGED <<now, today, settings, rules, messages, reply_state, reply_counts,
                   poll, sent, faults, wm_seen, peers, chat_triggers, fn,
                   personal_cache, next_id, syncs, rand, main, send_failed,
                   handler_failed, refresh_failed>>

\* check_chat_limits: the row after its day reset, and its answer
ChatLimitsRow(row) ==
    IF row.last_count_reset # today
    THEN [row EXCEPT !.daily_count = 0, !.last_count_reset = today]
    ELSE row

ChatLimitsOk(g) ==
    /\ g \in DOMAIN chat_triggers
    /\ \/ chat_triggers[g].last_count_reset # today
       \/ chat_triggers[g].daily_count < chat_triggers[g].daily_limit

\* check_chat_triggers from check_chat_limits on: the limits, the cooldown on
\* the row read before, the triggers
HChatLimits(h) ==
    /\ handlers[h].pc = "g_limits"
    /\ LET g      == handlers[h].peer_id
           reason == CheckChatTriggers(TRUE, handlers[h].triggers, ChatLimitsOk(g),
                                       handlers[h].message_text, handlers[h].is_mention,
                                       handlers[h].is_reply_to_me)
       IN  /\ chat_triggers' = IF g \in DOMAIN chat_triggers
                               THEN [chat_triggers EXCEPT ![g] = ChatLimitsRow(@)]
                               ELSE chat_triggers
           /\ handlers' = IF reason = None
                          THEN [handlers EXCEPT ![h] = HandlerIdle]
                          ELSE [handlers EXCEPT ![h].pc = "g_resolve"]
    /\ UNCHANGED <<now, today, settings, rules, messages, reply_state, reply_counts,
                   poll, sent, faults, wm_seen, peers, events, fn, personal_cache,
                   next_id, syncs, rand, chat_last, main, send_failed, handler_failed,
                   refresh_failed>>

\* process_chat_message: the reply text
ChatReplyText(ai_enabled, gen) ==
    IF ai_enabled /\ Truthy(gen.text) THEN gen.text ELSE FALLBACK_MESSAGE

\* handle_new_message reads the row again; process_chat_message up to the send
HChatResolve(h) ==
    /\ handlers[h].pc = "g_resolve"
    /\ \E lo \in LocalOutcomes, ro \in RemoteOutcomes :
         LET gen == GenerateAiResponse(settings.ai_engine, settings.has_key, lo, ro)
         IN  handlers' =
               IF ChatFound(handlers[h].peer_id) /\ IsAutoReplyEnabled
               THEN [handlers EXCEPT ![h].pc = "g_send",
                                     ![h].text = ChatReplyText(IsAiEnabled, gen)]
               ELSE [handlers EXCEPT ![h] = HandlerIdle]
    /\ UNCHANGED <<now, today, settings, rules, messages, reply_state, reply_counts,
                   poll, sent, faults, wm_seen, peers, events, chat_triggers, fn,
                   personal_cache, next_id, syncs, rand, chat_last, main, send_failed,
                   handler_failed, refresh_failed>>

HChatSendOk(h) ==
    /\ handlers[h].pc = "g_send"
    /\ main.transport
    /\ chat_last' = [chat_last EXCEPT ![handlers[h].peer_id] = "me"]
    /\ sent' = Append(sent, [pipeline |-> "group", peer_id |-> handlers[h].peer_id,
                             message_id |-> handlers[h].msg,
                             text |-> handlers[h].text, time |-> now])
    /\ handlers' = [handlers EXCEPT ![h].pc = "g_count"]
    /\ UNCHANGED <<now, today, settings, rules, messages, reply_state, reply_counts,
                   poll, faults, wm_seen, peers, events, chat_triggers, fn,
                   personal_cache, next_id, syncs, rand, main, send_failed,
                   handler_failed, refresh_failed>>

\* a failed send that is counted like a successful one
HChatSendFailCounted(h) ==
    /\ handlers[h].pc = "g_send"
    /\ handlers' = [handlers EXCEPT ![h].pc = "g_count"]
    /\ handler_failed' = handler_failed \cup {[pipeline |-> "group", msg |-> handlers[h].msg]}
    /\ UNCHANGED <<now, today, settings, rules, messages, reply_state, reply_counts,
                   poll, sent, faults, wm_seen, peers, events, chat_triggers, fn,
                   personal_cache, next_id, syncs, rand, chat_last, main, send_failed,
                   refresh_failed>>

HChatSendFail(h) ==
    /\ handlers[h].pc = "g_send"
    /\ handlers' = [handlers EXCEPT ![h] = HandlerIdle]
    /\ handler_failed' = handler_failed \cup {[pipeline |-> "group", msg |-> handlers[h].msg]}
    /\ UNCHANGED <<now, today, settings, rules, messages, reply_state, reply_counts,
                   poll, sent, faults, wm_seen, peers, events, chat_triggers, fn,
                   personal_cache, next_id, syncs, rand, chat_last, main, send_failed,
                   refresh_failed>>

\* update_chat_counters
UpdateChatCountersKeepTime(row) ==
    [row EXCEPT !.daily_count = IF row.last_count_reset # today THEN 1 ELSE @ + 1,
                !.last_count_reset = today]

UpdateChatCounters(row) ==
    [row EXCEPT !.daily_count = IF row.last_count_reset # today THEN 1 ELSE @ + 1,
                !.last_count_reset = today,
                !.last_random_time = now]

HChatCount(h) ==
    /\ handlers[h].pc = "g_count"
    /\ LET g == handlers[h].peer_id
       IN  chat_triggers' = IF g \in DOMAIN chat_triggers
                            THEN [chat_triggers EXCEPT ![g] = UpdateChatCounters(@)]
                            ELSE chat_triggers
    /\ handlers' = [handlers EXCEPT ![h] = HandlerIdle]
    /\ UNCHANGED <<now, today, settings, rules, messages, reply_state, reply_counts,
                   poll, sent, faults, wm_seen, peers, events, fn, personal_cache,
                   next_id, syncs, rand, chat_last, main, send_failed, handler_failed,
                   refresh_failed>>

(* -------------------------- random injection -------------------------- *)
RandIdle == [pc |-> "sleep", batch |-> <<>>, i |-> 0, text |-> None]

\* the WHERE clause of the scan of random_chat_task
IsRandomCandidate(g) ==
    /\ g \in DOMAIN peers
    /\ chat_triggers[g].enabled
    /\ chat_triggers[g].trigger_random
    /\ chat_triggers[g].daily_count < chat_triggers[g].daily_limit
    /\ \/ chat_triggers[g].last_random_time = NoTime
       \/ ElapsedSec(chat_triggers[g].last_random_time)
            >= chat_triggers[g].random_interval_min * 60

RandomCandidates ==
    LET ids == SortedSeq({g \in DOMAIN chat_triggers : IsRandomCandidate(g)})
    IN  [k \in 1..Len(ids) |-> [peer_id |-> ids[k]] @@ chat_triggers[ids[k]]]

RandChat == rand.batch[rand.i]

\* the for loop of random_chat_task goes on to the next chat, or the task sleeps
RandNext ==
    IF rand.i < Len(rand.batch)
    THEN [rand EXCEPT !.pc = "interval", !.i = rand.i + 1, !.text = None]
    ELSE RandIdle

\* after asyncio.sleep(60): the scan query
RScan ==
    /\ rand.pc = "sleep"
    /\ LET chats == RandomCandidates
       IN  rand' = IF Len(chats) > 0
                   THEN [pc |-> "interval", batch |-> chats, i |-> 1, text |-> None]
                   ELSE RandIdle
    /\ UNCHANGED <<now, today, settings, rules, messages, reply_state, reply_counts,
                   poll, sent, faults, wm_seen, peers, handlers, events, chat_triggers,
                   fn, personal_cache, next_id, syncs, chat_last, main, send_failed,
                   handler_failed, refresh_failed>>

\* random_interval_min + random.random() * (max - min), in seconds: the lowest
\* value, a middle one, the highest below max
IntervalSamples(chat) ==
    { chat.random_interval_min * 60,
      (chat.random_interval_min * 60 + chat.random_interval_max * 60) \div 2,
      Max({chat.random_interval_min * 60, chat.random_interval_max * 60 - 1}) }

\* the interval test on the row the scan read
RInterval ==
    /\ rand.pc = "interval"
    /\ \E random_interval \in IntervalSamples(RandChat) :
         rand' = IF /\ RandChat.last_random_time # NoTime
                    /\ ElapsedSec(RandChat.last_random_time) < random_interval
                 THEN RandNext
                 ELSE [rand EXCEPT !.pc = "last"]
    /\ UNCHANGED <<now, today, settings, rules, messages, reply_state, reply_counts,
                   poll, sent, faults, wm_seen, peers, handlers, events, chat_triggers,
                   fn, personal_cache, next_id, syncs, chat_last, main, send_failed,
                   handler_failed, refresh_failed>>

\* the scan without the test of the chat's last message
RLastUnchecked ==
    /\ rand.pc = "last"
    /\ rand' = [rand EXCEPT !.pc = "generate"]
    /\ UNCHANGED <<now, today, settings, rules, messages, reply_state, reply_counts,
                   poll, sent, faults, wm_seen, peers, handlers, events, chat_triggers,
                   fn, personal_cache, next_id, syncs, chat_last, main, send_failed,
                   handler_failed, refresh_failed>>

\* get_messages(limit=1): a chat whose last message is the account's is skipped
RLast ==
    /\ rand.pc = "last"
    /\ rand' = IF chat_last[RandChat.peer_id] = "me"
               THEN RandNext
               ELSE [rand EXCEPT !.pc = "generate"]
    /\ UNCHANGED <<now, today, settings, rules, messages, reply_state, reply_counts,
                   poll, sent, faults, wm_seen, peers, handlers, events, chat_triggers,
                   fn, personal_cache, next_id, syncs, chat_last, main, send_failed,
                   handler_failed, refresh_failed>>

\* random_chat_task: a message is sent only if a backend produced text
RandomOutcome(gen) ==
    IF Truthy(gen.text) THEN [dispatch |-> TRUE, text |-> gen.text]
    ELSE [dispatch |-> FALSE, text |-> None]

\* the context is loaded and generate_ai_response called
RGenerate ==
    /\ rand.pc = "generate"
    /\ \E lo \in LocalOutcomes, ro \in RemoteOutcomes :
         LET out == RandomOutcome(GenerateAiResponse(settings.ai_engine, settings.has_key,
                                                     lo, ro))
         IN  rand' = IF out.dispatch
                     THEN [rand EXCEPT !.pc = "send", !.text = out.text]
                     ELSE RandNext
    /\ UNCHANGED <<now, today, settings, rules, messages, reply_state, reply_counts,
                   poll, sent, faults, wm_seen, peers, handlers, events, chat_triggers,
                   fn, personal_cache, next_id, syncs, chat_last, main, send_failed,
                   handler_failed, refresh_failed>>

\* tg_client.send_message returned
RSendOk ==
    /\ rand.pc = "send"
    /\ main.transport
    /\ sent' = Append(sent, [pipeline |-> "random", peer_id |-> RandChat.peer_id,
                             message_id |-> 0, text |-> rand.text, time |-> now])
    /\ chat_last' = [chat_last EXCEPT ![RandChat.peer_id] = "me"]
    /\ rand' = [rand EXCEPT !.pc = "count"]
    /\ UNCHANGED <<now, today, settings, rules, messages, reply_state, reply_counts,
                   poll, faults, wm_seen, peers, handlers, events, chat_triggers, fn,
                   personal_cache, next_id, syncs, main, send_failed, handler_failed,
                   refresh_failed>>

\* tg_client.send_message raised: caught by the try around the chat
RSendFail ==
    /\ rand.pc = "send"
    /\ rand' = RandNext
    /\ UNCHANGED <<now, today, settings, rules, messages, reply_state, reply_counts,
                   poll, sent, faults, wm_seen, peers, handlers, events, chat_triggers,
                   fn, personal_cache, next_id, syncs, chat_last, main, send_failed,
                   handler_failed, refresh_failed>>

\* update_chat_counters after the send
RCount ==
    /\ rand.pc = "count"
    /\ LET g == RandChat.peer_id
       IN  chat_triggers' = IF g \in DOMAIN chat_triggers
                            THEN [chat_triggers EXCEPT ![g] = UpdateChatCounters(@)]
                            ELSE chat_triggers
    /\ rand' = RandNext
    /\ UNCHANGED <<now, today, settings, rules, messages, reply_state, reply_counts,
                   poll, sent, faults, wm_seen, peers, handlers, events, fn,
                   personal_cache, next_id, syncs, chat_last, main, send_failed,
                   handler_failed, refresh_failed>>

\* the task as asyncio.create_task starts it, before get_me
RandStart == [RandIdle EXCEPT !.pc = "start"]

\* the task after an exception no handler of random_chat_task caught
RandDead == [RandIdle EXCEPT !.pc = "dead"]

\* me = await tg_client.get_me() returned: the task enters its loop
RGetMe ==
    /\ rand.pc = "start"
    /\ rand' = RandIdle
    /\ UNCHANGED <<now, today, settings, rules, messages, reply_state, reply_counts,
                   poll, sent, faults, wm_seen, peers, handlers, events, chat_triggers,
                   fn, personal_cache, next_id, syncs, chat_last, main, send_failed,
                   handler_failed, refresh_failed>>

\* get_me raised: the call is before the while loop and outside every try
RGetMeFail ==
    /\ rand.pc = "start"
    /\ faults < MaxFaults
    /\ faults' = faults + 1
    /\ rand' = RandDead
    /\ UNCHANGED <<now, today, settings, rules, messages, reply_state, reply_counts,
                   poll, sent, wm_seen, peers, handlers, events, chat_triggers, fn,
                   personal_cache, next_id, syncs, chat_last, main, send_failed,
                   handler_failed, refresh_failed>>

\* the scan query, or acquiring the connection, raised: the outer except of the
\* loop logs, sleeps and starts the next cycle
RScanFault ==
    /\ rand.pc = "sleep"
    /\ faults < MaxFaults
    /\ faults' = faults + 1
    /\ rand' = RandIdle
    /\ UNCHANGED <<now, today, settings, rules, messages, reply_state, reply_counts,
                   poll, sent, wm_seen, peers, handlers, events, chat_triggers, fn,
                   personal_cache, next_id, syncs, chat_last, main, send_failed,
                   handler_failed, refresh_failed>>

\* get_messages, get_ai_settings or update_chat_counters raised for a chat:
\* the except around the chat logs and the for loop goes on
RChatFault ==
    /\ rand.pc \in {"last", "generate", "count"}
    /\ faults < MaxFaults
    /\ faults' = faults + 1
    /\ rand' = RandNext
    /\ UNCHANGED <<now, today, settings, rules, messages, reply_state, reply_counts,
                   poll, sent, wm_seen, peers, handlers, events, chat_triggers, fn,
                   personal_cache, next_id, syncs, chat_last, main, send_failed,
                   handler_failed, refresh_failed>>

(* ---------------------------- environment ----------------------------- *)
Tick ==
    /\ now < MaxTime
    /\ now' = now + 1
    /\ UNCHANGED <<today, settings, rules, messages, reply_state, reply_counts, poll,
                   sent, faults, wm_seen, peers, handlers, events, chat_triggers, fn,
                   personal_cache, next_id, syncs, rand, chat_last, main, send_failed,
                   handler_failed, refresh_failed>>

\* midnight UTC
NewDay ==
    /\ today + 1 \in Days
    /\ today' = today + 1
    /\ UNCHANGED <<now, settings, rules, messages, reply_state, reply_counts, poll,
                   sent, faults, wm_seen, peers, handlers, events, chat_triggers, fn,
                   personal_cache, next_id, syncs, rand, chat_last, main, send_failed,
                   handler_failed, refresh_failed>>

\* the collector stores a message; ids are serial
Arrive ==
    /\ Len(messages) < MaxMsgs
    /\ \E p \in Peers, k \in ArriveKinds :
         messages' = Append(messages, [peer_id |-> p, from_me |-> k.from_me,
                                       text |-> k.text, date |-> now])
    /\ UNCHANGED <<now, today, settings, rules, reply_state, reply_counts, poll, sent,
                   faults, wm_seen, peers, handlers, events, chat_triggers, fn,
                   personal_cache, next_id, syncs, rand, chat_last, main, send_failed,
                   handler_failed, refresh_failed>>

(* --------------------------- specifications --------------------------- *)
FnIdle == [kind |-> "none"]

DirectSettings ==
    [auto_reply_enabled |-> "1", ai_enabled |-> "1", ai_engine |-> "local",
     has_key |-> TRUE, daily_max_replies |-> 2, new_contact_max_replies |-> 2,
     new_contact_mode |-> "off"]

Init ==
    /\ now = 0
    /\ today = 0
    /\ settings = DirectSettings
    /\ rules = DirectRules
    /\ messages = <<>>
    /\ reply_state = <<>>
    /\ reply_counts = <<>>
    /\ poll = PollIdle
    /\ sent = <<>>
    /\ faults = 0
    /\ wm_seen = [p \in Peers |-> 0]
    /\ peers = [p \in Peers |-> [id |-> p, in_personal |-> FALSE]]
    /\ handlers = [h \in Handlers |-> HandlerIdle]
    /\ events = 0
    /\ chat_triggers = <<>>
    /\ fn = FnIdle
    /\ personal_cache = {}
    /\ next_id = FirstNewId
    /\ syncs = 0
    /\ rand = RandIdle
    /\ chat_last = [g \in Chats |-> "none"]
    /\ main = MainRunning
    /\ send_failed = {}
    /\ handler_failed = {}
    /\ refresh_failed = FALSE

PollStep ==
    \/ PollFetch
    \/ PollCheckDaily
    \/ PollIncrDaily
    \/ PollResolve
    \/ PollSendOk
    \/ PollSendFail
    \/ PollCommit

Next ==
    \/ PollStep
    \/ Tick
    \/ Arrive

Spec == Init /\ [][Next]_vars

\* the same, with a store that can fail at the watermark commit
NextFault ==
    \/ Next
    \/ PollCommitFault

SpecFault == Init /\ [][NextFault]_vars

\* the polling loop with a daily cap above the number of messages
RetrySettings == [DirectSettings EXCEPT !.daily_max_replies = MaxMsgs + 1]

InitRetry ==
    /\ now = 0
    /\ today = 0
    /\ settings = RetrySettings
    /\ rules = DirectRules
    /\ messages = <<>>
    /\ reply_state = <<>>
    /\ reply_counts = <<>>
    /\ poll = PollIdle
    /\ sent = <<>>
    /\ faults = 0
    /\ wm_seen = [p \in Peers |-> 0]
    /\ peers = [p \in Peers |-> [id |-> p, in_personal |-> FALSE]]
    /\ handlers = [h \in Handlers |-> HandlerIdle]
    /\ events = 0
    /\ chat_triggers = <<>>
    /\ fn = FnIdle
    /\ personal_cache = {}
    /\ next_id = FirstNewId
    /\ syncs = 0
    /\ rand = RandIdle
    /\ chat_last = [g \in Chats |-> "none"]
    /\ main = MainRunning
    /\ send_failed = {}
    /\ handler_failed = {}
    /\ refresh_failed = FALSE

SpecRetry == InitRetry /\ [][Next]_vars

\* the polling loop on a store that already holds two inbound messages and
\* daily counters of today or yesterday, below, at and above the cap
StoredCounts ==
    { <<>> } \cup
    { (p :> [daily_replies |-> c, new_contact_replies |-> 0, last_reply_date |-> d])
        : p \in Peers, c \in 0..(DirectSettings.daily_max_replies + 1), d \in {-1, 0} }

InitSkip ==
    /\ now = 0
    /\ today = 0
    /\ settings = DirectSettings
    /\ rules = [p \in Peers |-> Rule(TRUE, "template", "Away", 0)]
    /\ \E p, q \in Peers :
         messages = << [peer_id |-> p, from_me |-> FALSE, text |-> "hi", date |-> 0],
                       [peer_id |-> q, from_me |-> FALSE, text |-> "hi", date |-> 0] >>
    /\ \E c1, c2 \in StoredCounts : reply_counts = c1 @@ c2
    /\ reply_state = <<>>
    /\ poll = PollIdle
    /\ sent = <<>>
    /\ faults = 0
    /\ wm_seen = [p \in Peers |-> 0]
    /\ peers = [p \in Peers |-> [id |-> p, in_personal |-> FALSE]]
    /\ handlers = [h \in Handlers |-> HandlerIdle]
    /\ events = 0
    /\ chat_triggers = <<>>
    /\ fn = FnIdle
    /\ personal_cache = {}
    /\ next_id = FirstNewId
    /\ syncs = 0
    /\ rand = RandIdle
    /\ chat_last = [g \in Chats |-> "none"]
    /\ main = MainRunning
    /\ send_failed = {}
    /\ handler_failed = {}
    /\ refresh_failed = FALSE

SpecSkip == InitSkip /\ [][PollStep]_vars

\* the reactive handler with the new-contact pipeline, next to the polling
\* loop: peer 1 has an enabled rule, peer 2 is not known yet
NewContactSettings ==
    { [DirectSettings EXCEPT !.new_contact_mode = m, !.daily_max_replies = 1]
        : m \in {"template", "ai"} }

NewContactRules ==
    (1 :> Rule(TRUE, "template", "Away", 0)) @@ (2 :> NoRule)

InitNC ==
    /\ now = 0
    /\ today = 0
    /\ settings \in NewContactSettings
    /\ rules = NewContactRules
    /\ messages = <<>>
    /\ reply_state = <<>>
    /\ reply_counts = <<>>
    /\ poll = PollIdle
    /\ sent = <<>>
    /\ faults = 0
    /\ wm_seen = [p \in Peers |-> 0]
    /\ peers = (1 :> [id |-> 1, in_personal |-> FALSE])
    /\ handlers = [h \in Handlers |-> HandlerIdle]
    /\ events = 0
    /\ chat_triggers = <<>>
    /\ fn = FnIdle
    /\ personal_cache = {}
    /\ next_id = FirstNewId
    /\ syncs = 0
    /\ rand = RandIdle
    /\ chat_last = [g \in Chats |-> "none"]
    /\ main = MainRunning
    /\ send_failed = {}
    /\ handler_failed = {}
    /\ refresh_failed = FALSE

HandlerStep ==
    \E h \in Handlers :
      \/ HLookup(h)
      \/ HNcUpsert(h)
      \/ HNcLimit(h)
      \/ HNcResolve(h)
      \/ HNcSendOk(h)
      \/ HNcSendFail(h)
      \/ HNcIncr(h)

NextNC ==
    \/ HandlerStep
    \/ NewDay

SpecNC == InitNC /\ [][NextNC]_vars

\* both writers of reply_counts: the polling loop and the reactive handler
NextQuota ==
    \/ PollStep
    \/ Arrive
    \/ HandlerStep
    \/ NewDay

InitQuota ==
    /\ InitNC
    /\ settings.new_contact_mode = "template"

SpecQuota == InitQuota /\ [][NextQuota]_vars

\* the reactive handler in one group chat with every trigger on and a
\* cooldown of 60 s
InitChat ==
    /\ now = 0
    /\ today = 0
    /\ settings = DirectSettings
    /\ rules = [p \in Peers |-> NoRule]
    /\ messages = <<>>
    /\ reply_state = <<>>
    /\ reply_counts = <<>>
    /\ poll = PollIdle
    /\ sent = <<>>
    /\ faults = 0
    /\ wm_seen = [p \in Peers |-> 0]
    /\ peers = (1 :> [id |-> 1, in_personal |-> FALSE])
    /\ handlers = [h \in Handlers |-> HandlerIdle]
    /\ events = 0
    /\ chat_triggers = (1 :> ChatRow(TRUE, TRUE, TRUE, <<"a">>, 60, NoTime))
    /\ fn = FnIdle
    /\ personal_cache = {}
    /\ next_id = FirstNewId
    /\ syncs = 0
    /\ rand = RandIdle
    /\ chat_last = [g \in Chats |-> "none"]
    /\ main = MainRunning
    /\ send_failed = {}
    /\ handler_failed = {}
    /\ refresh_failed = FALSE

ChatStep ==
    \E h \in Handlers :
      \/ HChatLookup(h)
      \/ HChatLimits(h)
      \/ HChatResolve(h)
      \/ HChatSendOk(h)
      \/ HChatSendFail(h)
      \/ HChatCount(h)

NextChat ==
    \/ ChatStep
    \/ Tick
    \/ NewDay

SpecChat == InitChat /\ [][NextChat]_vars

\* the polling loop alone across a change of the UTC day, daily cap 1
NextDay ==
    \/ PollStep
    \/ Arrive
    \/ NewDay

SpecDay == InitQuota /\ [][NextDay]_vars

\* one inbound handler at a time and the Personal-folder synchronisation:
\* user 1 is in Personal, user 2 is not known yet; lifetime cap 1
SyncSettings ==
    [DirectSettings EXCEPT !.new_contact_mode = "template", !.new_contact_max_replies = 1]

InitSync ==
    /\ now = 0
    /\ today = 0
    /\ settings = SyncSettings
    /\ rules = [p \in Peers |-> NoRule]
    /\ messages = <<>>
    /\ reply_state = <<>>
    /\ reply_counts = <<>>
    /\ poll = PollIdle
    /\ sent = <<>>
    /\ faults = 0
    /\ wm_seen = [p \in Peers |-> 0]
    /\ peers = (1 :> [id |-> 1, in_personal |-> TRUE])
    /\ handlers = [h \in Handlers |-> HandlerIdle]
    /\ events = 0
    /\ chat_triggers = <<>>
    /\ fn = FnIdle
    /\ personal_cache = {1}
    /\ next_id = FirstNewId
    /\ syncs = 0
    /\ rand = RandIdle
    /\ chat_last = [g \in Chats |-> "none"]
    /\ main = MainRunning
    /\ send_failed = {}
    /\ handler_failed = {}
    /\ refresh_failed = FALSE

SyncStep ==
    \/ PollRefresh
    \/ PollSyncReset
    \/ PollSyncSet
    \/ PollSyncDelete
    \/ PollFetch

FirstHandlerStep ==
    \/ HLookup(1)
    \/ HNcUpsert(1)
    \/ HNcLimit(1)
    \/ HNcResolve(1)
    \/ HNcSendOk(1)
    \/ HNcSendFail(1)
    \/ HNcIncr(1)

NextSync ==
    \/ FirstHandlerStep
    \/ SyncStep
    \/ NewDay

SpecSync == InitSync /\ [][NextSync]_vars

\* the random-injection task in a chat with only the random trigger on,
\* interval [5, 10] minutes, last fired 10 minutes before the start
RandomChatRow ==
    [ChatRow(FALSE, FALSE, FALSE, <<>>, 0, -4) EXCEPT
       !.trigger_random = TRUE, !.random_interval_min = 5, !.random_interval_max = 10]

InitRandom ==
    /\ now = 0
    /\ today = 0
    /\ settings = DirectSettings
    /\ rules = [p \in Peers |-> NoRule]
    /\ messages = <<>>
    /\ reply_state = <<>>
    /\ reply_counts = <<>>
    /\ poll = PollIdle
    /\ sent = <<>>
    /\ faults = 0
    /\ wm_seen = [p \in Peers |-> 0]
    /\ peers = (1 :> [id |-> 1, in_personal |-> FALSE])
    /\ handlers = [h \in Handlers |-> HandlerIdle]
    /\ events = 0
    /\ chat_triggers \in {(1 :> [RandomChatRow EXCEPT !.daily_count = c]) : c \in {0, 1}}
    /\ fn = FnIdle
    /\ personal_cache = {}
    /\ next_id = FirstNewId
    /\ syncs = 0
    /\ rand = RandIdle
    /\ chat_last \in [Chats -> {"none", "other", "me"}]
    /\ main = MainRunning
    /\ send_failed = {}
    /\ handler_failed = {}
    /\ refresh_failed = FALSE

RandomStep ==
    \/ RScan
    \/ RInterval
    \/ RLast
    \/ RGenerate
    \/ RSendOk
    \/ RSendFail
    \/ RCount

NextRandom ==
    \/ RandomStep
    \/ HChatLookup(1)
    \/ HChatLimits(1)
    \/ Tick
    \/ NewDay

SpecRandom == InitRandom /\ [][NextRandom]_vars

\* the two background tasks of main next to each other, from the moment main
\* created them, with a store and a transport that can fail: entity 1 is a
\* group chat with the random trigger on, user 2 has an enabled rule
SchedRules ==
    (1 :> NoRule) @@ (2 :> Rule(TRUE, "ai", "", 0))

InitSched ==
    /\ now = 0
    /\ today = 0
    /\ settings = DirectSettings
    /\ rules = SchedRules
    /\ messages = <<>>
    /\ reply_state = <<>>
    /\ reply_counts = <<>>
    /\ poll = PollIdle
    /\ sent = <<>>
    /\ faults = 0
    /\ wm_seen = [p \in Peers |-> 0]
    /\ peers = [p \in Peers |-> [id |-> p, in_personal |-> FALSE]]
    /\ handlers = [h \in Handlers |-> HandlerIdle]
    /\ events = 0
    /\ chat_triggers = (1 :> RandomChatRow)
    /\ fn = FnIdle
    /\ personal_cache = {2}
    /\ next_id = FirstNewId
    /\ syncs = 0
    /\ rand = RandStart
    /\ chat_last = [g \in Chats |-> "none"]
    /\ main = MainRunning
    /\ send_failed = {}
    /\ handler_failed = {}
    /\ refresh_failed = FALSE

\* one inbound message in the run
SchedArrive ==
    /\ messages = <<>>
    /\ Arrive

SchedFault ==
    \/ PollCommitFault
    \/ PollSyncFault
    \/ PollStoreFault
    \/ RGetMeFail
    \/ RScanFault
    \/ RChatFault

NextSched ==
    \/ PollStep
    \/ SyncStep
    \/ RGetMe
    \/ RandomStep
    \/ SchedFault
    \/ SchedArrive

SpecSched == InitSched /\ [][NextSched]_vars

(* ------------------------------ shutdown ------------------------------ *)
\* a background task after cancel() was delivered at its await
PollCancelled == [PollIdle EXCEPT !.pc = "cancelled"]

RandCancelled == [RandIdle EXCEPT !.pc = "cancelled"]

\* client.run_until_disconnected() returned: the connection is gone
MainDisconnected ==
    /\ main.pc = "running"
    /\ main' = [main EXCEPT !.pc = "finally", !.transport = FALSE]
    /\ UNCHANGED <<now, today, settings, rules, messages, reply_state, reply_counts,
                   poll, sent, faults, wm_seen, peers, handlers, events, chat_triggers,
                   fn, personal_cache, next_id, syncs, rand, chat_last, send_failed,
                   handler_failed, refresh_failed>>

\* KeyboardInterrupt while the client is connected
MainInterrupted ==
    /\ main.pc = "running"
    /\ main' = [main EXCEPT !.pc = "finally"]
    /\ UNCHANGED <<now, today, settings, rules, messages, reply_state, reply_counts,
                   poll, sent, faults, wm_seen, peers, handlers, events, chat_triggers,
                   fn, personal_cache, next_id, syncs, rand, chat_last, send_failed,
                   handler_failed, refresh_failed>>

\* finally: polling_task.cancel(), random_task.cancel(), await of both
MainCancelTasks ==
    /\ main.pc = "finally"
    /\ poll' = PollCancelled
    /\ rand' = RandCancelled
    /\ main' = [main EXCEPT !.pc = "disconnect"]
    /\ UNCHANGED <<now, today, settings, rules, messages, reply_state, reply_counts,
                   sent, faults, wm_seen, peers, handlers, events, chat_triggers, fn,
                   personal_cache, next_id, syncs, chat_last, send_failed,
                   handler_failed, refresh_failed>>

\* await client.disconnect(): main passes no handler task to it; whether the
\* client library ends the tasks of its event handlers is not main's code
MainDisconnect ==
    /\ main.pc = "disconnect"
    /\ \E library_cancels \in BOOLEAN :
         handlers' = IF library_cancels
                     THEN [h \in Handlers |-> HandlerIdle]
                     ELSE handlers
    /\ main' = [main EXCEPT !.pc = "close_http", !.transport = FALSE]
    /\ UNCHANGED <<now, today, settings, rules, messages, reply_state, reply_counts,
                   poll, sent, faults, wm_seen, peers, events, chat_triggers, fn,
                   personal_cache, next_id, syncs, rand, chat_last, send_failed,
                   handler_failed, refresh_failed>>

\* await close_http()
MainCloseHttp ==
    /\ main.pc = "close_http"
    /\ main' = [main EXCEPT !.pc = "close_db", !.http = FALSE]
    /\ UNCHANGED <<now, today, settings, rules, messages, reply_state, reply_counts,
                   poll, sent, faults, wm_seen, peers, handlers, events, chat_triggers,
                   fn, personal_cache, next_id, syncs, rand, chat_last, send_failed,
                   handler_failed, refresh_failed>>

\* await close_db()
MainCloseDb ==
    /\ main.pc = "close_db"
    /\ main' = [main EXCEPT !.pc = "stopped", !.store = FALSE]
    /\ UNCHANGED <<now, today, settings, rules, messages, reply_state, reply_counts,
                   poll, sent, faults, wm_seen, peers, handlers, events, chat_triggers,
                   fn, personal_cache, next_id, syncs, rand, chat_last, send_failed,
                   handler_failed, refresh_failed>>

MainStep ==
    \/ MainDisconnected
    \/ MainInterrupted
    \/ MainCancelTasks
    \/ MainDisconnect
    \/ MainCloseHttp
    \/ MainCloseDb

\* handle_new_message on a closed pool: db_pool.acquire raises, the except at
\* the end of the handler logs it
HStoreClosed(h) ==
    /\ handlers[h].pc \in {"g_limits", "g_resolve", "g_count"}
    /\ ~main.store
    /\ handlers' = [handlers EXCEPT ![h] = HandlerIdle]
    /\ UNCHANGED <<now, today, settings, rules, messages, reply_state, reply_counts,
                   poll, sent, faults, wm_seen, peers, events, chat_triggers, fn,
                   personal_cache, next_id, syncs, rand, chat_last, main, send_failed,
                   handler_failed, refresh_failed>>

\* one reactive handler on group events: events arrive while the client is
\* connected, store statements run while the pool is open
ShutdownHandlerStep ==
    \/ main.transport /\ HChatLookup(1)
    \/ main.store /\ HChatLimits(1)
    \/ main.store /\ HChatResolve(1)
    \/ HChatSendOk(1)
    \/ HChatSendFail(1)
    \/ main.store /\ HChatCount(1)
    \/ HStoreClosed(1)

\* entity 1 is a group chat with the mention and the random trigger on, user 2
\* has an enabled template rule
ShutdownRules ==
    (1 :> NoRule) @@ (2 :> Rule(TRUE, "template", "Away", 0))

ShutdownChatRow ==
    [RandomChatRow EXCEPT !.trigger_mention = TRUE]

InitShutdown ==
    /\ now = 0
    /\ today = 0
    /\ settings = DirectSettings
    /\ rules = ShutdownRules
    /\ messages = <<>>
    /\ reply_state = <<>>
    /\ reply_counts = <<>>
    /\ poll = PollIdle
    /\ sent = <<>>
    /\ faults = 0
    /\ wm_seen = [p \in Peers |-> 0]
    /\ peers = [p \in Peers |-> [id |-> p, in_personal |-> FALSE]]
    /\ handlers = [h \in Handlers |-> HandlerIdle]
    /\ events = 0
    /\ chat_triggers = (1 :> ShutdownChatRow)
    /\ fn = FnIdle
    /\ personal_cache = {2}
    /\ next_id = FirstNewId
    /\ syncs = 0
    /\ rand = RandIdle
    /\ chat_last = [g \in Chats |-> "none"]
    /\ main = MainRunning
    /\ send_failed = {}
    /\ handler_failed = {}
    /\ refresh_failed = FALSE

NextShutdown ==
    \/ MainStep
    \/ PollStep
    \/ RandomStep
    \/ ShutdownHandlerStep
    \/ SchedArrive

SpecShutdown == InitShutdown /\ [][NextShutdown]_vars

(* ----------------- the candidate query on a filled store -------------- *)
\* what a stored message can be: fresh, at the edge of the recency window,
\* outbound, of a second peer
StoredKinds ==
    { [peer_id |-> 1, from_me |-> FALSE, age |-> 0],
      [peer_id |-> 1, from_me |-> FALSE, age |-> 1],
      [peer_id |-> 1, from_me |-> FALSE, age |-> 2],
      [peer_id |-> 1, from_me |-> TRUE, age |-> 0],
      [peer_id |-> 2, from_me |-> FALSE, age |-> 0] }

\* n stored messages of user 1, fresh and inbound, but for the one at place k
StoredMessages(n, k, kind) ==
    [i \in 1..n |->
       IF i = k
       THEN [peer_id |-> kind.peer_id, from_me |-> kind.from_me, text |-> "hi",
             date |-> now - kind.age]
       ELSE [peer_id |-> 1, from_me |-> FALSE, text |-> "hi", date |-> now]]

\* the rule of user 2: none, disabled, off, enabled
SecondRules ==
    { NoRule, Rule(FALSE, "ai", "", 0), Rule(TRUE, "off", "", 0), Rule(TRUE, "ai", "", 0) }

\* the reply state of user 1: none, an old reply, a reply one tick ago
FirstReplyStates ==
    { <<>>,
      (1 :> [last_message_id |-> 2, last_reply_time |-> now - 2]),
      (1 :> [last_message_id |-> 2, last_reply_time |-> now]) }

InitCand ==
    /\ now = 2
    /\ today = 0
    /\ settings = DirectSettings
    /\ \E r \in SecondRules :
         rules = (1 :> Rule(TRUE, "template", "Away", DefaultMinIntervalSec)) @@ (2 :> r)
    /\ \E n \in {0, 3, BatchLimit, MaxStored}, k \in 1..MaxStored, kind \in StoredKinds :
         messages = StoredMessages(n, k, kind)
    /\ reply_state \in FirstReplyStates
    /\ reply_counts = <<>>
    /\ poll = [PollIdle EXCEPT !.pc = "synced"]
    /\ sent = <<>>
    /\ faults = 0
    /\ wm_seen = [p \in Peers |-> 0]
    /\ peers = [p \in Peers |-> [id |-> p, in_personal |-> FALSE]]
    /\ handlers = [h \in Handlers |-> HandlerIdle]
    /\ events = 0
    /\ chat_triggers = <<>>
    /\ fn = FnIdle
    /\ personal_cache = {}
    /\ next_id = FirstNewId
    /\ syncs = 0
    /\ rand = RandIdle
    /\ chat_last = [g \in Chats |-> "none"]
    /\ main = MainRunning
    /\ send_failed = {}
    /\ handler_failed = {}
    /\ refresh_failed = FALSE

NextCand == PollFetch

SpecCand == InitCand /\ [][NextCand]_vars

(* ------------- a group chat with triggers and random injection -------- *)
\* one chat with the mention and the random trigger on, cooldown 60 s, random
\* interval [5, 10] minutes, last fired 10 minutes before the start; AI is
\* off for trigger replies
MixSettings == [DirectSettings EXCEPT !.ai_enabled = "0"]

MixChatRow(daily_limit) ==
    [RandomChatRow EXCEPT !.trigger_mention = TRUE, !.cooldown_sec = 60,
                          !.daily_limit = daily_limit]

InitMix ==
    /\ now = 0
    /\ today = 0
    /\ settings = MixSettings
    /\ rules = [p \in Peers |-> NoRule]
    /\ messages = <<>>
    /\ reply_state = <<>>
    /\ reply_counts = <<>>
    /\ poll = PollIdle
    /\ sent = <<>>
    /\ faults = 0
    /\ wm_seen = [p \in Peers |-> 0]
    /\ peers = (1 :> [id |-> 1, in_personal |-> FALSE])
    /\ handlers = [h \in Handlers |-> HandlerIdle]
    /\ events = 0
    /\ chat_triggers \in {(1 :> MixChatRow(daily_limit)) : daily_limit \in 0..MaxDailyLimit}
    /\ fn = FnIdle
    /\ personal_cache = {}
    /\ next_id = FirstNewId
    /\ syncs = 0
    /\ rand = RandIdle
    /\ chat_last = [g \in Chats |-> "none"]
    /\ main = MainRunning
    /\ send_failed = {}
    /\ handler_failed = {}
    /\ refresh_failed = FALSE

FirstChatStep ==
    \/ HChatLookup(1)
    \/ HChatLimits(1)
    \/ HChatResolve(1)
    \/ HChatSendOk(1)
    \/ HChatSendFail(1)
    \/ HChatCount(1)

NextMix ==
    \/ FirstChatStep
    \/ RandomStep
    \/ Tick
    \/ NewDay

SpecMix == InitMix /\ [][NextMix]_vars

\* the handlers of inbound events with both reactive pipelines: entity 1 is a
\* group chat with every trigger on, no user is known yet, new-contact mode
\* "template"; a private message of key 1 is left to the poll by its rule
InboundSettings == [DirectSettings EXCEPT !.new_contact_mode = "template"]

InitInbound ==
    /\ now = 0
    /\ today = 0
    /\ settings = InboundSettings
    /\ rules = NewContactRules
    /\ messages = <<>>
    /\ reply_state = <<>>
    /\ reply_counts = <<>>
    /\ poll = PollIdle
    /\ sent = <<>>
    /\ faults = 0
    /\ wm_seen = [p \in Peers |-> 0]
    /\ peers = (1 :> [id |-> 1, in_personal |-> FALSE])
    /\ handlers = [h \in Handlers |-> HandlerIdle]
    /\ events = 0
    /\ chat_triggers = (1 :> ChatRow(TRUE, TRUE, TRUE, <<"a">>, 60, NoTime))
    /\ fn = FnIdle
    /\ personal_cache = {}
    /\ next_id = FirstNewId
    /\ syncs = 0
    /\ rand = RandIdle
    /\ chat_last = [g \in Chats |-> "none"]
    /\ main = MainRunning
    /\ send_failed = {}
    /\ handler_failed = {}
    /\ refresh_failed = FALSE

NextInbound ==
    \/ HandlerStep
    \/ ChatStep
    \/ NewDay

SpecInbound == InitInbound /\ [][NextInbound]_vars

\* all four activities under every combination of the two global switches:
\* entity 1 is a group chat with the mention and the random trigger on, user 2
\* either has an enabled rule in mode "ai" or is a contact not seen before
FlagSettings ==
    { [DirectSettings EXCEPT !.auto_reply_enabled = a, !.ai_enabled = b,
                             !.new_contact_mode = m]
        : a \in {"0", "1"}, b \in {"0", "1"}, m \in {"template", "ai"} }

FlagRules ==
    { (1 :> NoRule) @@ (2 :> r) : r \in {NoRule, Rule(TRUE, "ai", "Away", 0)} }

InitFlags ==
    /\ now = 0
    /\ today = 0
    /\ settings \in FlagSettings
    /\ rules \in FlagRules
    /\ messages = <<>>
    /\ reply_state = <<>>
    /\ reply_counts = <<>>
    /\ poll = PollIdle
    /\ sent = <<>>
    /\ faults = 0
    /\ wm_seen = [p \in Peers |-> 0]
    /\ peers = IF rules[2].present
               THEN [p \in Peers |-> [id |-> p, in_personal |-> FALSE]]
               ELSE (1 :> [id |-> 1, in_personal |-> FALSE])
    /\ handlers = [h \in Handlers |-> HandlerIdle]
    /\ events = 0
    /\ chat_triggers = (1 :> ShutdownChatRow)
    /\ fn = FnIdle
    /\ personal_cache = {}
    /\ next_id = FirstNewId
    /\ syncs = 0
    /\ rand = RandIdle
    /\ chat_last = [g \in Chats |-> "none"]
    /\ main = MainRunning
    /\ send_failed = {}
    /\ handler_failed = {}
    /\ refresh_failed = FALSE

\* a private message of user 2
FlagsPrivate ==
    /\ HLookup(1)
    /\ handlers'[1].tg_peer_id \in {0, 2}

FlagsHandlerStep ==
    \/ FlagsPrivate
    \/ HNcUpsert(1)
    \/ HNcLimit(1)
    \/ HNcResolve(1)
    \/ HNcSendOk(1)
    \/ HNcSendFail(1)
    \/ HNcIncr(1)

NextFlags ==
    \/ PollStep
    \/ SchedArrive
    \/ FlagsHandlerStep
    \/ FirstChatStep
    \/ RandomStep

SpecFlags == InitFlags /\ [][NextFlags]_vars

\* the polling loop on a store where user 1 wrote n messages and user 2 one
\* message after them, all in the same tick; user 1 is at the daily cap or
\* has no counter yet; both users have an enabled template rule without a
\* minimum interval
StarveMessages(n) ==
    [i \in 1..(n + 1) |->
       [peer_id |-> IF i <= n THEN 1 ELSE 2, from_me |-> FALSE, text |-> "hi", date |-> 0]]

InitStarve ==
    /\ now = 0
    /\ today = 0
    /\ settings = DirectSettings
    /\ rules = [p \in Peers |-> Rule(TRUE, "template", "Away", 0)]
    /\ \E n \in {1, BatchLimit - 1, BatchLimit} : messages = StarveMessages(n)
    /\ reply_state = <<>>
    /\ reply_counts \in
         { <<>>,
           (1 :> [daily_replies |-> settings.daily_max_replies, new_contact_replies |-> 0,
                  last_reply_date |-> 0]) }
    /\ poll = [PollIdle EXCEPT !.pc = "synced"]
    /\ sent = <<>>
    /\ faults = 0
    /\ wm_seen = [p \in Peers |-> 0]
    /\ peers = [p \in Peers |-> [id |-> p, in_personal |-> FALSE]]
    /\ handlers = [h \in Handlers |-> HandlerIdle]
    /\ events = 0
    /\ chat_triggers = <<>>
    /\ fn = FnIdle
    /\ personal_cache = {}
    /\ next_id = FirstNewId
    /\ syncs = 0
    /\ rand = RandIdle
    /\ chat_last = [g \in Chats |-> "none"]
    /\ main = MainRunning
    /\ send_failed = {}
    /\ handler_failed = {}
    /\ refresh_failed = FALSE

\* polling_loop: asyncio.sleep(CHECK_INTERVAL) after a cycle, then the next
\* iteration up to process_auto_replies; the clock only moves during the sleep,
\* so at least one cycle runs in every tick
PollSleep ==
    /\ poll.pc = "idle"
    /\ now < MaxTime
    /\ now' = now + 1
    /\ poll' = [PollIdle EXCEPT !.pc = "synced"]
    /\ UNCHANGED <<today, settings, rules, messages, reply_state, reply_counts, sent,
                   faults, wm_seen, peers, handlers, events, chat_triggers, fn,
                   personal_cache, next_id, syncs, rand, chat_last, main, send_failed,
                   handler_failed, refresh_failed>>

NextStarve ==
    \/ PollStep
    \/ PollSleep

SpecStarve == InitStarve /\ [][NextStarve]_vars

\* the new-contact handler under every value of new_contact_mode, the key not
\* being set included: user 1 is known without a rule, user 2 is not known
NcModeSettings ==
    { [DirectSettings EXCEPT !.new_contact_mode = m]
        : m \in {None, "off", "template", "ai", "other"} }

InitNcMode ==
    /\ now = 0
    /\ today = 0
    /\ settings \in NcModeSettings
    /\ rules = [p \in Peers |-> NoRule]
    /\ messages = <<>>
    /\ reply_state = <<>>
    /\ reply_counts = <<>>
    /\ poll = PollIdle
    /\ sent = <<>>
    /\ faults = 0
    /\ wm_seen = [p \in Peers |-> 0]
    /\ peers = (1 :> [id |-> 1, in_personal |-> FALSE])
    /\ handlers = [h \in Handlers |-> HandlerIdle]
    /\ events = 0
    /\ chat_triggers = <<>>
    /\ fn = FnIdle
    /\ personal_cache = {}
    /\ next_id = FirstNewId
    /\ syncs = 0
    /\ rand = RandIdle
    /\ chat_last = [g \in Chats |-> "none"]
    /\ main = MainRunning
    /\ send_failed = {}
    /\ handler_failed = {}
    /\ refresh_failed = FALSE

SpecNcMode == InitNcMode /\ [][NextNC]_vars

(* ------------------- the functions taken one call at a time ----------- *)
GenInputs == [engine : Engines, has_key : BOOLEAN, lo : LocalOutcomes, ro : RemoteOutcomes]

Gen(a) == GenerateAiResponse(a.engine, a.has_key, a.lo, a.ro)

DirectInputs ==
    [gen : GenInputs, reply_mode : {"ai", "template"}, template : {"", "Away", " Away "},
     message_text : {"", "hi"}, ai_enabled : BOOLEAN]

NewContactInputs == [gen : GenInputs, mode : {"template", "ai", "other"}]

ChatReplyInputs == [gen : GenInputs, ai_enabled : BOOLEAN]

RandomInputs == [gen : GenInputs]

TriggerInputs ==
    [found : BOOLEAN, limits_ok : BOOLEAN,
     triggers : {ChatRow(m, r, k, kws, cd, lrt) :
                   m \in BOOLEAN, r \in BOOLEAN, k \in BOOLEAN,
                   kws \in {<<>>, <<"a">>, <<" ", "A", ",", " ", "b">>, <<",", " ", ",">>},
                   cd \in {0, 60}, lrt \in {NoTime, 0, 1}},
     message_text : {<<"x">>, <<"x", "A">>, <<"b">>, <<" ", ",">>},
     is_mention : BOOLEAN, is_reply_to_me : BOOLEAN]

FnCall(kind, inputs) == {[kind |-> kind, pc |-> "call", args |-> a, out |-> None] : a \in inputs}

FnInputs ==
    FnCall("generate_ai_response", GenInputs) \cup FnCall("direct", DirectInputs)
      \cup FnCall("new_contact", NewContactInputs) \cup FnCall("group", ChatReplyInputs)
      \cup FnCall("random", RandomInputs) \cup FnCall("check_chat_triggers", TriggerInputs)

FnCalled(kind) == fn.kind = kind /\ fn.pc = "call"

FnReturn(out) == [fn EXCEPT !.pc = "done", !.out = out]

FnGenerateAiResponse ==
    /\ FnCalled("generate_ai_response")
    /\ fn' = FnReturn(Gen(fn.args))
    /\ UNCHANGED <<now, today, settings, rules, messages, reply_state, reply_counts,
                   poll, sent, faults, wm_seen, peers, handlers, events, chat_triggers,
                   personal_cache, next_id, syncs, rand, chat_last, main, send_failed,
                   handler_failed, refresh_failed>>

\* process_auto_replies, from the reply_mode chain to the call of send_reply
FnDirect ==
    /\ FnCalled("direct")
    /\ fn' = FnReturn(
           [requested |-> UsesBackend(fn.args, fn.args.ai_enabled),
            gen_text |-> Gen(fn.args.gen).text, dispatch |-> TRUE,
            text |-> ResolveText(fn.args, fn.args.ai_enabled, Gen(fn.args.gen))])
    /\ UNCHANGED <<now, today, settings, rules, messages, reply_state, reply_counts,
                   poll, sent, faults, wm_seen, peers, handlers, events, chat_triggers,
                   personal_cache, next_id, syncs, rand, chat_last, main, send_failed,
                   handler_failed, refresh_failed>>

\* process_new_contact, from the mode chain to the call of send_reply
FnNewContact ==
    /\ FnCalled("new_contact")
    /\ fn' = FnReturn(
           [requested |-> fn.args.mode = "ai",
            gen_text |-> Gen(fn.args.gen).text,
            dispatch |-> NewContactText(fn.args.mode, Gen(fn.args.gen)) # None,
            text |-> NewContactText(fn.args.mode, Gen(fn.args.gen))])
    /\ UNCHANGED <<now, today, settings, rules, messages, reply_state, reply_counts,
                   poll, sent, faults, wm_seen, peers, handlers, events, chat_triggers,
                   personal_cache, next_id, syncs, rand, chat_last, main, send_failed,
                   handler_failed, refresh_failed>>

\* process_chat_message, from "if ai_enabled" to the call of send_reply
FnGroup ==
    /\ FnCalled("group")
    /\ fn' = FnReturn(
           [requested |-> fn.args.ai_enabled,
            gen_text |-> Gen(fn.args.gen).text, dispatch |-> TRUE,
            text |-> ChatReplyText(fn.args.ai_enabled, Gen(fn.args.gen))])
    /\ UNCHANGED <<now, today, settings, rules, messages, reply_state, reply_counts,
                   poll, sent, faults, wm_seen, peers, handlers, events, chat_triggers,
                   personal_cache, next_id, syncs, rand, chat_last, main, send_failed,
                   handler_failed, refresh_failed>>

\* random_chat_task, from generate_ai_response to send_message
FnRandom ==
    /\ FnCalled("random")
    /\ fn' = FnReturn(
           [requested |-> TRUE, gen_text |-> Gen(fn.args.gen).text,
            dispatch |-> RandomOutcome(Gen(fn.args.gen)).dispatch,
            text |-> RandomOutcome(Gen(fn.args.gen)).text])
    /\ UNCHANGED <<now, today, settings, rules, messages, reply_state, reply_counts,
                   poll, sent, faults, wm_seen, peers, handlers, events, chat_triggers,
                   personal_cache, next_id, syncs, rand, chat_last, main, send_failed,
                   handler_failed, refresh_failed>>

FnCheckChatTriggers ==
    /\ FnCalled("check_chat_triggers")
    /\ fn' = FnReturn(
           CheckChatTriggers(fn.args.found, fn.args.triggers, fn.args.limits_ok,
                             fn.args.message_text, fn.args.is_mention,
                             fn.args.is_reply_to_me))
    /\ UNCHANGED <<now, today, settings, rules, messages, reply_state, reply_counts,
                   poll, sent, faults, wm_seen, peers, handlers, events, chat_triggers,
                   personal_cache, next_id, syncs, rand, chat_last, main, send_failed,
                   handler_failed, refresh_failed>>

InitFn ==
    /\ now = 1
    /\ today = 0
    /\ settings = DirectSettings
    /\ rules = [p \in Peers |-> NoRule]
    /\ messages = <<>>
    /\ reply_state = <<>>
    /\ reply_counts = <<>>
    /\ poll = PollIdle
    /\ sent = <<>>
    /\ faults = 0
    /\ wm_seen = [p \in Peers |-> 0]
    /\ peers = <<>>
    /\ handlers = [h \in Handlers |-> HandlerIdle]
    /\ events = 0
    /\ chat_triggers = <<>>
    /\ fn \in FnInputs
    /\ personal_cache = {}
    /\ next_id = FirstNewId
    /\ syncs = 0
    /\ rand = RandIdle
    /\ chat_last = [g \in Chats |-> "none"]
    /\ main = MainRunning
    /\ send_failed = {}
    /\ handler_failed = {}
    /\ refresh_failed = FALSE

NextFn ==
    \/ FnGenerateAiResponse
    \/ FnDirect
    \/ FnNewContact
    \/ FnGroup
    \/ FnRandom
    \/ FnCheckChatTriggers

SpecFn == InitFn /\ [][NextFn]_vars

(* --------------- the local backend's post-processing ------------------ *)
\* A text is a sequence of characters; a run of letters that no pattern of
\* generate_response can cut (im_start, im_end, endoftext, assistant) is one
\* element, with the number of characters it stands for
CharLen(s) ==
    LET n(c) == CASE c = "im_end" -> 6 [] c = "im_start" -> 8
                  [] c = "endoftext" -> 9 [] c = "assistant" -> 9 [] OTHER -> 1
        RECURSIVE sum(_)
        sum(t) == IF t = <<>> THEN 0 ELSE n(Head(t)) + sum(Tail(t))
    IN  sum(s)

IM_END == <<"<", "|", "im_end", "|", ">">>
IM_START == <<"<", "|", "im_start", "|", ">">>
ENDOFTEXT == <<"<", "|", "endoftext", "|", ">">>
S_CLOSE == <<"<", "/", "s", ">">>
S_OPEN == <<"<", "s", ">">>

SPECIAL_TOKENS == {IM_END, IM_START, S_CLOSE, S_OPEN, ENDOFTEXT}

\* "ага", "ок", "понял", "да", "ну да", "угу", one element per character
FALLBACK_RESPONSES ==
    { <<"a", "g", "a">>, <<"o", "k">>, <<"p", "o", "n", "ya", "l">>, <<"d", "a">>,
      <<"n", "u", " ", "d", "a">>, <<"u", "g", "u">> }

MinAnswerLen == 2

AssistantTag == IM_START \o <<"assistant">>

Whitespace == {" ", "\n"}

\* str.strip()
RECURSIVE LStripWs(_)
LStripWs(s) == IF s # <<>> /\ Head(s) \in Whitespace THEN LStripWs(Tail(s)) ELSE s

RECURSIVE RStripWs(_)
RStripWs(s) ==
    IF s # <<>> /\ s[Len(s)] \in Whitespace THEN RStripWs(SubSeq(s, 1, Len(s) - 1)) ELSE s

StripWs(s) == RStripWs(LStripWs(s))

\* str.rstrip('<')
RECURSIVE RStripLt(_)
RStripLt(s) == IF s # <<>> /\ s[Len(s)] = "<" THEN RStripLt(SubSeq(s, 1, Len(s) - 1)) ELSE s

\* the places of s where pat begins
Occurrences(pat, s) ==
    {i \in 1..(Len(s) - Len(pat) + 1) : SubSeq(s, i, i + Len(pat) - 1) = pat}

\* s.split(pat)[-1] and s.split(pat)[0], for a pattern that cannot overlap itself
AfterLast(s, pat) ==
    IF Occurrences(pat, s) = {} THEN s
    ELSE SubSeq(s, Max(Occurrences(pat, s)) + Len(pat), Len(s))

BeforeFirst(s, pat) ==
    IF Occurrences(pat, s) = {} THEN s
    ELSE SubSeq(s, 1, Min(Occurrences(pat, s)) - 1)

\* s.replace(pat, ''): one pass from the left
RECURSIVE Remove(_, _)
Remove(s, pat) ==
    IF s = <<>> THEN <<>>
    ELSE IF 1 \in Occurrences(pat, s) THEN Remove(SubSeq(s, Len(pat) + 1, Len(s)), pat)
    ELSE <<Head(s)>> \o Remove(Tail(s), pat)

\* generate_response from the decoded output on, before the test of the length
CleanAnswer(response) ==
    LET answer  == IF Occurrences(AssistantTag, response) # {}
                   THEN StripWs(BeforeFirst(AfterLast(response, AssistantTag), IM_END))
                   ELSE response
        cut     == BeforeFirst(answer, <<"<", "|">>)
        removed == Remove(Remove(cut, S_CLOSE), S_OPEN)
        clean   == StripWs(RStripLt(removed))
    IN  IF clean # <<>> /\ Head(clean) = "\n" THEN Tail(clean) ELSE clean

\* generate_response without the substitution of short answers
GenerateResponseKeepShort(response, fallback) == CleanAnswer(response)

\* generate_response: fallback is what random.choice(FALLBACK_RESPONSES) draws
GenerateResponse(response, fallback) ==
    IF CharLen(CleanAnswer(response)) < MinAnswerLen THEN fallback ELSE CleanAnswer(response)

\* what the decoded output is made of: characters, control tokens, the tag
\* that opens the assistant's turn
RawChunks ==
    { <<"<">>, <<"s">>, <<">">>, <<"x">>, <<" ">>, <<"\n">>,
      S_OPEN, S_CLOSE, IM_END, IM_START, ENDOFTEXT, AssistantTag }

RECURSIVE Concat(_)
Concat(chunks) == IF chunks = <<>> THEN <<>> ELSE Head(chunks) \o Concat(Tail(chunks))

\* the decoded outputs of at most n pieces
RawOutputs(n) == UNION { {Concat(c) : c \in [1..k -> RawChunks]} : k \in 0..n }

PostInputs(n) == [response : RawOutputs(n)]

InitPost ==
    /\ now = 0
    /\ today = 0
    /\ settings = DirectSettings
    /\ rules = [p \in Peers |-> NoRule]
    /\ messages = <<>>
    /\ reply_state = <<>>
    /\ reply_counts = <<>>
    /\ poll = PollIdle
    /\ sent = <<>>
    /\ faults = 0
    /\ wm_seen = [p \in Peers |-> 0]
    /\ peers = <<>>
    /\ handlers = [h \in Handlers |-> HandlerIdle]
    /\ events = 0
    /\ chat_triggers = <<>>
    /\ fn \in FnCall("generate_response", PostInputs(MaxChunks))
    /\ personal_cache = {}
    /\ next_id = FirstNewId
    /\ syncs = 0
    /\ rand = RandIdle
    /\ chat_last = [g \in Chats |-> "none"]
    /\ main = MainRunning
    /\ send_failed = {}
    /\ handler_failed = {}
    /\ refresh_failed = FALSE

FnGenerateResponse ==
    /\ FnCalled("generate_response")
    /\ \E fallback \in FALLBACK_RESPONSES :
         fn' = FnReturn(GenerateResponse(fn.args.response, fallback))
    /\ UNCHANGED <<now, today, settings, rules, messages, reply_state, reply_counts,
                   poll, sent, faults, wm_seen, peers, handlers, events, chat_triggers,
                   personal_cache, next_id, syncs, rand, chat_last, main, send_failed,
                   handler_failed, refresh_failed>>

SpecPost == InitPost /\ [][FnGenerateResponse]_vars

(* ============================== claims ================================ *)
SentTo(p) == {k \in 1..Len(sent) : sent[k].pipeline = "direct" /\ sent[k].peer_id = p}

RepliedIds(p) == {sent[k].message_id : k \in SentTo(p)}

CommitPending(p) == poll.pc = "commit" /\ Candidate.peer_id = p

\* C1: a peer's watermark never decreases (it always equals the highest value
\* it ever had), and once the dispatches to the peer are committed it is the
\* greatest message id among the messages replied to; a peer never replied to
\* has no reply-state row.
C1_WatermarkIsMaxReplied ==
    \A p \in Peers :
      /\ wm_seen[p] > 0 =>
            p \in DOMAIN reply_state /\ reply_state[p].last_message_id = wm_seen[p]
      /\ (RepliedIds(p) # {} /\ ~CommitPending(p)) =>
            p \in DOMAIN reply_state
            /\ reply_state[p].last_message_id = Max(RepliedIds(p))
      /\ p \in DOMAIN reply_state => RepliedIds(p) # {}

\* C1 witness: two dispatches to one peer are committed and a later send to
\* it has failed or is yet to come
C1_Witness ==
    \E p \in Peers :
      /\ Cardinality(SentTo(p)) >= 2
      /\ ~CommitPending(p)
      /\ p \in DOMAIN reply_state
      /\ reply_state[p].last_message_id = 2

\* C2: whatever watermark a peer has had, get_candidates_for_reply returns
\* no message of that peer at or below it.
C2_NoCandidateAtOrBelowWatermark ==
    LET c == GetCandidatesForReply
    IN  \A k \in 1..Len(c) : c[k].message_id > wm_seen[c[k].peer_id]

\* C2 witness: a message at or below its peer's watermark that meets every
\* other condition of the query
C2_Witness ==
    \E i \in 1..Len(messages) :
      /\ IsCandidateIgnoringWatermark(i)
      /\ messages[i].peer_id \in DOMAIN reply_state
      /\ i <= reply_state[messages[i].peer_id].last_message_id

\* C3: each inbound message gets at most one successfully sent reply, and the
\* replies to one peer are sent in ascending message-id order, also when the
\* watermark commit fails after the send.
C3_AtMostOnceInOrder ==
    \A j, k \in 1..Len(sent) :
      (j < k /\ sent[j].pipeline = "direct" /\ sent[k].pipeline = "direct"
             /\ sent[j].peer_id = sent[k].peer_id)
        => sent[j].message_id < sent[k].message_id

\* C10: two successful dispatches of the direct-reply pipeline to one peer are
\* at least the rule's min_interval_sec apart.
C10_MinIntervalBetweenDispatches ==
    \A j, k \in 1..Len(sent) :
      (j < k /\ sent[j].pipeline = "direct" /\ sent[k].pipeline = "direct"
             /\ sent[j].peer_id = sent[k].peer_id)
        => (sent[k].time - sent[j].time) * TickSec
             >= rules[sent[k].peer_id].min_interval_sec

NewContactSentTo(p) ==
    {k \in 1..Len(sent) : sent[k].pipeline = "new_contact" /\ sent[k].peer_id = p}

\* C4: a peer's daily counter never exceeds daily_max_replies on the current
\* UTC day, whichever of check_and_update_daily_limit and
\* increment_new_contact_reply wrote it.
C4_DailyCounterWithinCap ==
    \A p \in DOMAIN reply_counts :
      reply_counts[p].last_reply_date = today
        => reply_counts[p].daily_replies <= settings.daily_max_replies

\* C5: a new contact never gets more than new_contact_max_replies new-contact
\* replies, however the inbound-event handlers interleave.
C5_NewContactCap ==
    \A p \in Peers :
      Cardinality(NewContactSentTo(p)) <= settings.new_contact_max_replies

GroupSentTo(g) == {k \in 1..Len(sent) : sent[k].pipeline = "group" /\ sent[k].peer_id = g}

\* C9: two trigger replies to one chat are never dispatched within the
\* chat's cooldown_sec of each other, however the handlers interleave.
C9_OneDispatchPerCooldown ==
    \A g \in DOMAIN chat_triggers :
      \A j, k \in GroupSentTo(g) :
        j < k => (sent[k].time - sent[j].time) * TickSec >= chat_triggers[g].cooldown_sec

FnDone(kind) == fn.kind = kind /\ fn.pc = "done"

RemoteText(a) == GenerateClaudeResponse(a.has_key, a.ro).text

\* C6: with the preferred engine "local", a local backend that fails in any
\* way (or answers with empty text) makes generate_ai_response call the remote
\* backend exactly once and return its text when it has one; a local backend
\* that answers with text has that text returned and the remote never called.
C6_LocalThenRemoteOnce ==
    (FnDone("generate_ai_response") /\ fn.args.engine = "local") =>
      IF fn.args.lo = "text"
      THEN /\ fn.out.text = LOCAL_TEXT
           /\ fn.out.calls = <<"local">>
           /\ fn.out.remote_http = 0
      ELSE /\ fn.out.calls = <<"local", "claude">>
           /\ fn.out.local_http = 1
           /\ fn.out.remote_http <= 1
           /\ Truthy(RemoteText(fn.args)) => fn.out.text = RemoteText(fn.args)

C6_Witness ==
    /\ FnDone("generate_ai_response")
    /\ fn.args.engine = "local"
    /\ fn.args.lo = "timeout"
    /\ fn.args.has_key
    /\ fn.args.ro = "text"
    /\ fn.out.text = REMOTE_TEXT
    /\ fn.out.calls = <<"local", "claude">>

Pipelines == {"direct", "new_contact", "group", "random"}

\* a pipeline asked for generated text and every backend it tried failed
AllBackendsFailed ==
    /\ fn.kind \in Pipelines
    /\ fn.pc = "done"
    /\ fn.out.requested
    /\ ~Truthy(fn.out.gen_text)

\* C7 as stated: in each of the four pipelines, when every attempted backend
\* fails the text is FALLBACK_MESSAGE and the dispatch is still attempted.
C7_FallbackMessageEverywhere ==
    AllBackendsFailed => (fn.out.dispatch /\ fn.out.text = FALLBACK_MESSAGE)

\* C7 amended: when every attempted backend fails, the direct and the
\* group-trigger pipelines send FALLBACK_MESSAGE, the new-contact pipeline
\* sends the configured new_contact_template, and random injection sends
\* nothing.
C7_FallbackByPipeline ==
    AllBackendsFailed =>
      CASE fn.kind \in {"direct", "group"} ->
             fn.out.dispatch /\ fn.out.text = FALLBACK_MESSAGE
        [] fn.kind = "new_contact" ->
             fn.out.dispatch /\ fn.out.text = NEW_CONTACT_TEMPLATE
        [] fn.kind = "random" -> ~fn.out.dispatch

C7_Witness ==
    /\ AllBackendsFailed
    /\ fn.kind = "new_contact"
    /\ fn.args.gen.lo = "error"
    /\ fn.args.gen.ro = "status"
    /\ fn.out.dispatch
    /\ fn.out.text = NEW_CONTACT_TEMPLATE

TriggerOrder == <<"mention", "reply", "keyword">>

\* the enable flag of a reason is set and its condition holds
TriggerHolds(a, reason) ==
    CASE reason = "mention" -> a.triggers.trigger_mention /\ a.is_mention
      [] reason = "reply"   -> a.triggers.trigger_reply /\ a.is_reply_to_me
      [] reason = "keyword" ->
           /\ a.triggers.trigger_keywords
           /\ \E kw \in KeywordList(a.triggers.keywords) : Contains(kw, Lower(a.message_text))

PreChecksPass(a) == a.found /\ a.limits_ok /\ ~CooldownActive(a.triggers)

\* C8: when the pre-checks pass, check_chat_triggers returns the first of
\* mention, reply, keyword whose flag is set and whose condition holds, and
\* None when there is none.
C8_FirstEnabledReasonInOrder ==
    (FnDone("check_chat_triggers") /\ PreChecksPass(fn.args)) =>
      LET holding == {i \in 1..3 : TriggerHolds(fn.args, TriggerOrder[i])}
      IN  fn.out = IF holding = {} THEN None
                   ELSE TriggerOrder[CHOOSE i \in holding : \A j \in holding : i <= j]

C8_Witness ==
    /\ FnDone("check_chat_triggers")
    /\ PreChecksPass(fn.args)
    /\ TriggerHolds(fn.args, "mention")
    /\ TriggerHolds(fn.args, "keyword")
    /\ fn.args.triggers.cooldown_sec = 60
    /\ fn.args.triggers.last_random_time = 0
    /\ fn.out = "mention"

\* two inbound messages of peer p, the second stored less than the rule's
\* min_interval_sec after the first
CloseInboundPair(p, i, j) ==
    /\ i < j
    /\ messages[i].peer_id = p /\ messages[j].peer_id = p
    /\ ~messages[i].from_me /\ ~messages[j].from_me
    /\ (messages[j].date - messages[i].date) * TickSec < rules[p].min_interval_sec

\* C11: with a template rule and min_interval_sec = 60, of two inbound
\* messages of one peer that arrive less than the interval apart only the
\* first is ever replied to; the second gets no reply in any poll cycle.
C11_SecondMessageSuppressed ==
    \A p \in Peers : \A i, j \in 1..Len(messages) :
      (rules[p].reply_mode = "template" /\ rules[p].min_interval_sec = 60
         /\ CloseInboundPair(p, i, j))
        => \A k \in SentTo(p) : sent[k].message_id # j

\* the second message is replied to by a later poll cycle, once the interval
\* since the first reply has passed
C11_DeferredReply ==
    \E p \in Peers : \E i, j \in 1..Len(messages) :
      /\ rules[p].reply_mode = "template" /\ rules[p].min_interval_sec = 60
      /\ CloseInboundPair(p, i, j)
      /\ \E k1, k2 \in SentTo(p) :
           /\ sent[k1].message_id = i /\ sent[k2].message_id = j
           /\ (sent[k2].time - sent[k1].time) * TickSec >= 60
           /\ sent[k1].text = "Away" /\ sent[k2].text = "Away"

\* C13: the first check_and_update_daily_limit call for a peer on a new UTC
\* day sets the stored counter to 0 whatever it was and allows the reply, and
\* the counter is 1 when the call returns.
C13_NewDayResetsCounter ==
    [][ /\ (/\ poll.pc = "limit" /\ poll' # poll
            /\ Candidate.peer_id \in DOMAIN reply_counts
            /\ reply_counts[Candidate.peer_id].last_reply_date # today)
          => /\ reply_counts'[Candidate.peer_id].daily_replies = 0
             /\ reply_counts'[Candidate.peer_id].last_reply_date = today
             /\ poll'.pc = "incr"
             /\ poll'.current_count = 0
        /\ (poll.pc = "incr" /\ poll' # poll /\ poll.current_count = 0)
          => /\ reply_counts'[Candidate.peer_id].daily_replies = 1
             /\ poll'.pc = "resolve"
      ]_vars

\* a peer replied to yesterday up to the cap of 1 is allowed again today and
\* its counter is 1 after the call
C13_Witness ==
    /\ today = 1
    /\ settings.daily_max_replies = 1
    /\ poll.pc = "resolve"
    /\ SentTo(Candidate.peer_id) # {}
    /\ reply_counts[Candidate.peer_id].daily_replies = 1
    /\ reply_counts[Candidate.peer_id].last_reply_date = 1

\* C14: a failed send of the direct-reply pipeline changes neither
\* last_message_id nor last_reply_time of any peer, and auto_reply_state
\* changes only in the step that follows a send which returned success, for
\* the peer and the message of that send.
C14_FailedSendLeavesReplyState ==
    [][ /\ (poll.pc = "send" /\ poll' # poll /\ sent' = sent) => reply_state' = reply_state
        /\ reply_state' # reply_state
             => /\ poll.pc = "commit"
                /\ sent # <<>>
                /\ sent[Len(sent)].pipeline = "direct"
                /\ sent[Len(sent)].message_id = Candidate.message_id
                /\ \A p \in DOMAIN reply_state :
                     p # Candidate.peer_id => reply_state'[p] = reply_state[p]
      ]_vars

\* the send for an earlier candidate of the batch failed (its quota slot is
\* consumed, the cap is not reached, no reply was sent): its peer still has
\* no reply state
C14_Witness ==
    \E k \in 1..Len(poll.batch) :
      LET c == poll.batch[k]
      IN  /\ k < poll.i
          /\ c.message_id \notin RepliedIds(c.peer_id)
          /\ reply_counts[c.peer_id].daily_replies >= 1
          /\ reply_counts[c.peer_id].daily_replies < settings.daily_max_replies
          /\ c.peer_id \notin DOMAIN reply_state

\* C15: whenever a send is being attempted, in the direct-reply, the
\* new-contact and the group-trigger pipeline, the quota counter already
\* counts that reply.
C15_QuotaConsumedBeforeSend ==
    /\ poll.pc = "send" =>
         /\ Candidate.peer_id \in DOMAIN reply_counts
         /\ reply_counts[Candidate.peer_id].daily_replies >= 1
    /\ \A h \in Handlers :
         /\ handlers[h].pc = "nc_send" =>
              /\ handlers[h].peer_id \in DOMAIN reply_counts
              /\ reply_counts[handlers[h].peer_id].new_contact_replies
                   > Cardinality(NewContactSentTo(handlers[h].tg_peer_id))
         /\ handlers[h].pc = "g_send" =>
              /\ chat_triggers[handlers[h].peer_id].last_count_reset = today
              /\ chat_triggers[handlers[h].peer_id].daily_count >= 1

\* C20: every store step that applies the day-rollover reset of a peer's
\* daily counter applies the increment in the same step.
C20_ResetAndIncrementInOneStep ==
    [][ \A p \in DOMAIN reply_counts :
          (reply_counts[p].last_reply_date # today
             /\ reply_counts'[p].last_reply_date = today)
            => reply_counts'[p].daily_replies = 1
      ]_vars

\* the reset is applied, the increment is not, and a handler is about to
\* write reply_counts
C20_BetweenResetAndIncrement ==
    /\ poll.pc = "incr"
    /\ poll.current_count = 0
    /\ today = 1
    /\ \E h \in Handlers : handlers[h].pc = "nc_incr"

\* C18: no step removes a row of peers.
C18_PeersNeverDeleted ==
    [][\A p \in DOMAIN peers : p \in DOMAIN peers']_vars

\* the lifetime counter the worker consults for user p
NewContactCounter(p) ==
    IF p \in DOMAIN peers /\ peers[p].id \in DOMAIN reply_counts
    THEN reply_counts[peers[p].id].new_contact_replies
    ELSE 0

\* C19: a user who has received new_contact_max_replies new-contact replies
\* gets no further one, whatever happens later, and the user's new-contact
\* counter never goes down.
C19_LifetimeCap ==
    [][ \A p \in Peers :
          /\ Cardinality(NewContactSentTo(p)) >= settings.new_contact_max_replies
               => Cardinality(NewContactSentTo(p))' = Cardinality(NewContactSentTo(p))
          /\ NewContactCounter(p)' >= NewContactCounter(p)
      ]_vars

\* user 2, never in Personal and without a rule, has received more new-contact
\* replies than the lifetime cap: its peers row was deleted and created again
C19_ReplyAfterCap ==
    /\ Cardinality(NewContactSentTo(2)) > settings.new_contact_max_replies
    /\ 2 \in DOMAIN peers
    /\ peers[2].id > FirstNewId

RandomSentTo(g) == {k \in 1..Len(sent) : sent[k].pipeline = "random" /\ sent[k].peer_id = g}

\* the random trigger is on, the daily count is below the limit and at least
\* random_interval_max minutes have passed since the last fire
RandomDue(row) ==
    /\ row.enabled /\ row.trigger_random
    /\ row.daily_count < row.daily_limit
    /\ row.last_random_time # NoTime
    /\ ElapsedSec(row.last_random_time) >= row.random_interval_max * 60

C16_TasksNeverTerminate ==
    /\ poll.pc # "dead"
    /\ rand.pc # "dead"

\* a failure inside a cycle is survived: the task is back at its sleep
C16_SurvivedFault ==
    /\ faults > 0
    /\ rand.pc = "sleep"
    /\ poll.pc = "idle"

\* C17: on shutdown the reactive handler, the polling loop and the random
\* scan have all terminated before the transport, the HTTP session or the
\* store is closed, so none of them sends or writes on a closed handle
C17_TerminatedBeforeClose ==
    (~main.transport \/ ~main.http \/ ~main.store) =>
        /\ poll.pc = "cancelled"
        /\ rand.pc = "cancelled"
        /\ \A h \in Handlers : handlers[h].pc = "idle"

\* the polling loop is about to send on a client that is already disconnected
C17_PollSendsAfterDisconnect ==
    /\ ~main.transport
    /\ poll.pc = "send"

\* a handler is about to write its counters on a closed pool
C17_HandlerWritesAfterClose ==
    /\ ~main.store
    /\ \E h \in Handlers : handlers[h].pc = "g_count"

\* the messages the claim C21 names as candidates
C21_Eligible(i) ==
    LET m == messages[i]
        r == rules[m.peer_id]
    IN  /\ ~m.from_me
        /\ ElapsedSec(m.date) < 5 * 60
        /\ r.present /\ r.enabled /\ r.reply_mode # "off"
        /\ m.peer_id \in DOMAIN reply_state =>
             /\ i > reply_state[m.peer_id].last_message_id
             /\ ElapsedSec(reply_state[m.peer_id].last_reply_time) >= r.min_interval_sec

\* C21: get_candidates_for_reply returns exactly the lowest-id (at most 10)
\* messages, in ascending id order, that are inbound, at most 5 minutes old,
\* of a peer with an enabled rule whose mode is not off, above the peer's
\* watermark and past the rule's minimum interval (or without reply state);
\* it changes no stored state
C21_CandidateQuery ==
    [][ LET elig  == {i \in 1..Len(messages) : C21_Eligible(i)}
            batch == poll'.batch
            ids   == {batch[k].message_id : k \in 1..Len(batch)}
        IN  /\ Len(batch) = Min({10, Cardinality(elig)})
            /\ ids \subseteq elig
            /\ \A k, l \in 1..Len(batch) : k < l => batch[k].message_id < batch[l].message_id
            /\ \A i \in elig \ ids : \A j \in ids : j < i
            /\ UNCHANGED <<settings, rules, messages, reply_state, reply_counts, peers,
                           chat_triggers, sent>> ]_vars

\* the query has cut a longer list of candidates at 10 and skipped a message
\* that is no candidate
C21_Witness ==
    /\ poll.pc = "limit"
    /\ Len(poll.batch) = 10
    /\ Cardinality({i \in 1..Len(messages) : C21_Eligible(i)}) > 10
    /\ \E i \in 1..Len(messages) : ~C21_Eligible(i) /\ i < poll.batch[10].message_id

\* C22 as stated: for a candidate whose rule mode is template the dispatched
\* text is the rule's template text verbatim, for every template value, and
\* no generation backend is contacted
C22_TemplateVerbatim ==
    (FnDone("direct") /\ fn.args.reply_mode = "template") =>
      /\ fn.out.text = fn.args.template
      /\ ~fn.out.requested

\* C22 amended: for a candidate whose rule mode is template the dispatched
\* text is the rule's template text verbatim when that text is not empty and
\* FALLBACK_MESSAGE when it is empty; no generation backend is contacted
C22_TemplateOrFallbackMessage ==
    (FnDone("direct") /\ fn.args.reply_mode = "template") =>
      /\ fn.args.template # "" => fn.out.text = fn.args.template
      /\ fn.args.template = "" => fn.out.text = FALLBACK_MESSAGE
      /\ fn.out.dispatch
      /\ ~fn.out.requested

\* a template with surrounding blanks is sent as it is, with AI enabled and a
\* backend that would have answered
C22_Witness ==
    /\ FnDone("direct")
    /\ fn.args.reply_mode = "template"
    /\ fn.args.template = " Away "
    /\ fn.args.ai_enabled
    /\ fn.args.message_text # ""
    /\ Truthy(Gen(fn.args.gen).text)
    /\ fn.out.text = " Away "

\* the chat of handler h is at its daily cap for the current UTC day
C23_CapReached(h) ==
    LET row == chat_triggers[handlers[h].peer_id]
    IN  row.daily_count >= row.daily_limit /\ (row.last_count_reset = today \/ row.daily_limit = 0)

\* the cooldown since the last fire of the chat of handler h has not elapsed
C23_CooldownPending(h) ==
    CooldownActive(chat_triggers[handlers[h].peer_id])

\* C23: check_chat_triggers returns None, whatever the event, whenever the
\* chat's daily cap is reached or the cooldown since the chat's last fire has
\* not elapsed
C23_LimitsBeforeTriggers ==
    [][ \A h \in Handlers :
          (handlers[h].pc = "g_limits" /\ handlers'[h].pc = "g_resolve") =>
             ~C23_CapReached(h) /\ ~C23_CooldownPending(h) ]_vars

\* check_chat_triggers is about to test the cooldown on a row read before the
\* chat's last fire
C23_StaleCooldown ==
    \E h \in Handlers :
      /\ handlers[h].pc = "g_limits"
      /\ C23_CooldownPending(h)
      /\ ~CooldownActive(handlers[h].triggers)
      /\ handlers[h].is_mention

\* C24: with the preferred engine "claude" the local backend is never
\* contacted and the remote backend is called at most once per request; when
\* it fails, generate_ai_response returns no text and tries no other backend
C24_RemoteOnly ==
    (FnDone("generate_ai_response") /\ fn.args.engine = "claude") =>
      /\ fn.out.calls = <<"claude">>
      /\ fn.out.local_http = 0
      /\ fn.out.remote_http <= 1
      /\ (~fn.args.has_key \/ fn.args.ro # "text") => ~Truthy(fn.out.text)
      /\ (fn.args.has_key /\ fn.args.ro = "text") => fn.out.text = REMOTE_TEXT

\* the remote backend timed out while the local one would have answered
C24_Witness ==
    /\ FnDone("generate_ai_response")
    /\ fn.args.engine = "claude"
    /\ fn.args.has_key
    /\ fn.args.ro = "timeout"
    /\ fn.args.lo = "text"
    /\ fn.out.text = None
    /\ fn.out.remote_http = 1

\* C25: a user in the Personal folder (user 1 is, from the start and in every
\* fetch of the folder) never receives a new-contact reply and its
\* new-contact counter is never incremented, however the handler interleaves
\* with the synchronisation of the folder
C25_CuratedExempt ==
    1 \in personal_cache =>
      /\ NewContactSentTo(1) = {}
      /\ NewContactCounter(1) = 0
      /\ \A h \in Handlers :
           handlers[h].pc \in {"nc_upsert", "nc_limit", "nc_resolve", "nc_send", "nc_incr"}
             => handlers[h].tg_peer_id # 1

\* the handler took user 1 for a new contact between the two UPDATEs of
\* sync_personal_to_db, and the reply has been sent
C25_RepliedDuringSync ==
    /\ 1 \in personal_cache
    /\ poll.pc = "sync_set"
    /\ ~peers[1].in_personal
    /\ NewContactSentTo(1) # {}

\* C26: a group chat's daily_count is at most its daily_limit on the current
\* UTC day, in every reachable state
C26_ChatCounterWithinCap ==
    \A g \in DOMAIN chat_triggers :
      chat_triggers[g].last_count_reset = today =>
        chat_triggers[g].daily_count <= chat_triggers[g].daily_limit

\* with a positive cap: a trigger reply and a random injection both passed
\* the cap test before either was counted
C26_BothCounted ==
    \E g \in DOMAIN chat_triggers :
      /\ chat_triggers[g].daily_limit = 1
      /\ chat_triggers[g].last_count_reset = today
      /\ chat_triggers[g].daily_count = 2
      /\ today = 0
      /\ GroupSentTo(g) # {}
      /\ RandomSentTo(g) # {}

\* the daily quota of peer p is not exhausted
C27_QuotaLeft(p) ==
    \/ p \notin DOMAIN reply_counts
    \/ reply_counts[p].last_reply_date # today
    \/ reply_counts[p].daily_replies < settings.daily_max_replies

\* the rule's minimum interval since the last reply to peer p has passed
C27_IntervalPassed(p) ==
    \/ p \notin DOMAIN reply_state
    \/ ElapsedSec(reply_state[p].last_reply_time) >= rules[p].min_interval_sec

\* C27: a candidate whose send failed is selected again by a later poll
\* cycle (the next one, once the rule's minimum interval allows a reply) as
\* long as its message is inside the 5-minute window, its rule is enabled
\* and the peer's daily quota is not exhausted
C27_FailedSendRetried ==
    \A i \in send_failed :
      LET p == messages[i].peer_id
      IN  ( /\ poll.pc = "idle"
            /\ i \notin RepliedIds(p)
            /\ ElapsedSec(messages[i].date) < 5 * 60
            /\ HasRule(p)
            /\ C27_QuotaLeft(p)
            /\ C27_IntervalPassed(p) )
          => \E k \in 1..Len(GetCandidatesForReply) :
               GetCandidatesForReply[k].message_id = i

\* a message whose send failed lies below the watermark a later message of
\* the peer has set, fresh and with quota left
C27_LostBehindWatermark ==
    \E i \in send_failed :
      LET p == messages[i].peer_id
      IN  /\ poll.pc = "idle"
          /\ i \notin RepliedIds(p)
          /\ ElapsedSec(messages[i].date) < 5 * 60
          /\ C27_QuotaLeft(p)
          /\ C27_IntervalPassed(p)
          /\ p \in DOMAIN reply_state
          /\ reply_state[p].last_message_id > i
          /\ reply_state[p].last_message_id \in RepliedIds(p)

\* the replies counted for peer p on the current UTC day
C28_CountToday(p) ==
    IF p \in DOMAIN reply_counts /\ reply_counts[p].last_reply_date = today
    THEN reply_counts[p].daily_replies
    ELSE 0

\* C28: when check_and_update_daily_limit finds the daily cap reached for a
\* candidate, the loop goes on to the next candidate: no backend is called,
\* nothing is sent, the daily counter is not incremented and the peer's
\* watermark and last reply time are unchanged
C28_SkippedAtCap ==
    [][ \A p \in Peers :
          ( /\ poll.pc = "limit"
            /\ Candidate.peer_id = p
            /\ C28_CountToday(p) >= settings.daily_max_replies )
          => /\ poll' = PollNext
             /\ poll'.pc \in {"limit", "idle"}
             /\ sent' = sent
             /\ send_failed' = send_failed
             /\ reply_state' = reply_state
             /\ C28_CountToday(p)' = C28_CountToday(p) ]_vars

\* the first candidate of the batch was skipped at its cap, the loop is at
\* the second one
C28_Witness ==
    /\ poll.pc = "limit"
    /\ poll.i = 2
    /\ C28_CountToday(poll.batch[1].peer_id) >= settings.daily_max_replies
    /\ poll.batch[1].message_id \notin send_failed
    /\ poll.batch[1].message_id \notin RepliedIds(poll.batch[1].peer_id)
    /\ poll.batch[1].peer_id \notin DOMAIN reply_state

\* C29: the random scan dispatches no message into a chat whose most recent
\* message was the account's own when the scan checked it: such a chat is
\* left for the next chat of the scan, and a dispatch is only reached through
\* that check
C29_NoInjectionAfterOwnMessage ==
    /\ [][ (rand.pc = "last" /\ rand' # rand /\ chat_last[RandChat.peer_id] = "me")
             => /\ rand' = RandNext
                /\ rand'.pc \in {"interval", "sleep"}
                /\ sent' = sent ]_vars
    /\ [][ (rand'.pc = "generate" /\ rand.pc # "generate")
             => rand.pc = "last" /\ chat_last[RandChat.peer_id] # "me" ]_vars
    /\ [][ (rand'.pc = "send" /\ rand.pc # "send") => rand.pc = "generate" ]_vars
    /\ [][ RandomSentTo(1)' # RandomSentTo(1) => rand.pc = "send" ]_vars

\* after a trigger reply of the account, another user wrote and the scan
\* then injected a message
C29_Witness ==
    /\ rand.pc = "count"
    /\ \E j \in GroupSentTo(1), k \in RandomSentTo(1) : j < k /\ k = Len(sent)
    /\ chat_last[1] = "me"

\* C30: a random injection into a chat is dispatched at least
\* random_interval_min minutes after the chat's most recent fire, a trigger
\* reply or an earlier injection, whatever the handlers do while the scan runs
C30_InjectionAfterInterval ==
    \A g \in DOMAIN chat_triggers :
      \A k \in RandomSentTo(g) :
        \A j \in GroupSentTo(g) \cup RandomSentTo(g) :
          j < k => (sent[k].time - sent[j].time) * TickSec
                     >= chat_triggers[g].random_interval_min * 60

\* the trigger reply was dispatched and counted before the injection, which
\* passed the interval test on the row the scan had read earlier
C30_StaleScanRow ==
    \E g \in DOMAIN chat_triggers :
      /\ rand.pc = "send"
      /\ RandChat.peer_id = g
      /\ GroupSentTo(g) # {}
      /\ \A j \in GroupSentTo(g) :
           /\ chat_triggers[g].last_random_time >= sent[j].time
           /\ ElapsedSec(sent[j].time) < chat_triggers[g].random_interval_min * 60
      /\ RandChat.last_random_time < chat_triggers[g].last_random_time
      /\ \A h \in Handlers : handlers[h].pc = "idle"

\* C31: a chat whose daily count was last reset on an earlier UTC day is
\* selected by the random scan as if its count were 0: with the random trigger
\* on, a positive daily_limit and the interval passed, it is a candidate of
\* the scan whatever count the earlier day left
C31_NextDayEligible ==
    \A g \in DOMAIN chat_triggers :
      ( /\ g \in DOMAIN peers
        /\ chat_triggers[g].enabled
        /\ chat_triggers[g].trigger_random
        /\ chat_triggers[g].last_count_reset # today
        /\ chat_triggers[g].daily_limit > 0
        /\ \/ chat_triggers[g].last_random_time = NoTime
           \/ ElapsedSec(chat_triggers[g].last_random_time)
                >= chat_triggers[g].random_interval_min * 60 )
      => IsRandomCandidate(g)

\* the day after the cap was reached: the interval has passed, no handler
\* runs, the scan is idle and its query does not return the chat
C31_ExhaustedYesterday ==
    \E g \in DOMAIN chat_triggers :
      /\ chat_triggers[g].last_count_reset # today
      /\ chat_triggers[g].daily_limit > 0
      /\ chat_triggers[g].daily_count >= chat_triggers[g].daily_limit
      /\ ElapsedSec(chat_triggers[g].last_random_time)
           >= chat_triggers[g].random_interval_min * 60
      /\ rand.pc = "sleep"
      /\ RandomCandidates = <<>>
      /\ \A h \in Handlers : handlers[h].pc = "idle"

\* C32: a send that fails in the group-trigger or the new-contact pipeline
\* leaves chat_triggers and reply_counts as they were and ends the handler
\* without its counting step; so a chat's daily count is never above the
\* number of trigger replies dispatched to it, and a contact's counters never
\* above the number of new-contact replies dispatched to it
C32_FailedSendKeepsCounters ==
    /\ [][ handler_failed' # handler_failed
             => /\ chat_triggers' = chat_triggers
                /\ reply_counts' = reply_counts
                /\ sent' = sent
                /\ \A h \in Handlers :
                     handlers'[h] # handlers[h] => handlers'[h] = HandlerIdle ]_vars
    /\ [](\A g \in DOMAIN chat_triggers :
            /\ chat_triggers[g].daily_count <= Cardinality(GroupSentTo(g))
            /\ (GroupSentTo(g) = {} => chat_triggers[g].last_random_time = NoTime))
    /\ [](\A p \in DOMAIN peers :
            peers[p].id \in DOMAIN reply_counts =>
              /\ reply_counts[peers[p].id].new_contact_replies
                   <= Cardinality(NewContactSentTo(p))
              /\ reply_counts[peers[p].id].daily_replies
                   <= Cardinality(NewContactSentTo(p)))

\* a trigger reply and a new-contact reply both failed to send and nothing
\* else was attempted: no counter row of the contact, the chat's row as at
\* the start
C32_Witness ==
    /\ \E f, g \in handler_failed : f.pipeline = "group" /\ g.pipeline = "new_contact"
    /\ events = 2
    /\ sent = <<>>
    /\ 2 \in DOMAIN peers
    /\ reply_counts = <<>>
    /\ chat_triggers[1].daily_count = 0
    /\ chat_triggers[1].last_random_time = NoTime
    /\ \A h \in Handlers : handlers[h] = HandlerIdle

\* C33: while auto_reply_enabled is not "1", no pipeline dispatches a message
C33_NothingSentWhenDisabled ==
    ~IsAutoReplyEnabled => sent = <<>>

\* with the switch off the poll and the group-trigger handler have sent
\* nothing, and a new-contact reply or a random injection has been dispatched
C33_SentWhileDisabled ==
    /\ ~IsAutoReplyEnabled
    /\ sent # <<>>
    /\ \A k \in 1..Len(sent) : sent[k].pipeline \in {"new_contact", "random"}
    /\ \E k \in 1..Len(sent) : sent[k].pipeline = "new_contact"
    /\ \E k \in 1..Len(sent) : sent[k].pipeline = "random"

\* the poll and the group-trigger handler do observe the switch
C33_PollAndTriggerObserveSwitch ==
    ~IsAutoReplyEnabled =>
      \A k \in 1..Len(sent) : sent[k].pipeline \notin {"direct", "group"}

\* the texts only a generation backend produces
BackendTexts == {LOCAL_TEXT, REMOTE_TEXT}

\* C34: while ai_enabled is not "1", no dispatched message carries a text
\* obtained from a generation backend: a direct reply in mode "ai" is the
\* rule's template or FALLBACK_MESSAGE, a group-trigger reply is
\* FALLBACK_MESSAGE, and a new-contact reply or a random injection is not a
\* generated text either
C34_NoBackendWhenAiOff ==
    ~IsAiEnabled =>
      \A k \in 1..Len(sent) :
        /\ sent[k].text \notin BackendTexts
        /\ sent[k].pipeline = "direct" => sent[k].text = TemplateOrFallback(rules[sent[k].peer_id])
        /\ sent[k].pipeline = "group" => sent[k].text = FALLBACK_MESSAGE

\* with ai_enabled off, a new-contact reply and a random injection were
\* dispatched with the text a backend returned
C34_GeneratedWhileAiOff ==
    /\ ~IsAiEnabled
    /\ \E k \in 1..Len(sent) : sent[k].pipeline = "new_contact" /\ sent[k].text \in BackendTexts
    /\ \E k \in 1..Len(sent) : sent[k].pipeline = "random" /\ sent[k].text \in BackendTexts

\* the poll and the group-trigger handler do observe ai_enabled
C34_DirectAndTriggerObserveSwitch ==
    ~IsAiEnabled =>
      \A k \in 1..Len(sent) :
        /\ sent[k].pipeline = "direct" => sent[k].text = TemplateOrFallback(rules[sent[k].peer_id])
        /\ sent[k].pipeline = "group" => sent[k].text = FALLBACK_MESSAGE

\* message i was returned by a cycle: it is in the batch at hand, or its send
\* was attempted
C35_Returned(i) ==
    \/ \E k \in 1..Len(poll.batch) : poll.batch[k].message_id = i
    \/ i \in send_failed
    \/ \E k \in 1..Len(sent) : sent[k].pipeline = "direct" /\ sent[k].message_id = i

\* C35: an eligible message of a peer that was never replied to has been
\* returned by a poll cycle by the time it leaves the recency window, however
\* many unserved candidates of another peer have lower ids
C35_EligibleReturnedInWindow ==
    \A i \in 1..Len(messages) :
      ( /\ messages[i].peer_id = 2
        /\ 2 \notin DOMAIN reply_state
        /\ poll.pc # "synced"
        /\ ElapsedSec(messages[i].date) >= RecencyWindowSec )
      => C35_Returned(i)

\* user 1 is at the cap and its ten messages filled every batch: the message
\* of user 2 left the window without having been returned
C35_Starved ==
    /\ Len(messages) = BatchLimit + 1
    /\ ~C35_Returned(BatchLimit + 1)
    /\ ElapsedSec(messages[BatchLimit + 1].date) >= RecencyWindowSec
    /\ sent = <<>>
    /\ send_failed = {}
    /\ poll.pc = "idle"

\* with fewer than ten unserved candidates before it the message is returned
\* by the first cycle
C35_ReturnedBelowBatchLimit ==
    (Len(messages) <= BatchLimit /\ poll.pc # "synced") => C35_Returned(Len(messages))

\* C36: with new_contact_mode 'off', or not set, process_new_contact returns
\* at once: nothing is sent, no peers row is created or updated, no counter is
\* written, and no handler gets past the test of the mode
C36_OffChangesNothing ==
    /\ [](GetNewContactMode = "off" =>
            /\ sent = <<>>
            /\ handler_failed = {}
            /\ peers = (1 :> [id |-> 1, in_personal |-> FALSE])
            /\ next_id = FirstNewId
            /\ reply_counts = <<>>
            /\ \A h \in Handlers : handlers[h].pc \in {"idle", "nc_upsert"})
    /\ [][ \A h \in Handlers :
             (GetNewContactMode = "off" /\ handlers[h].pc = "nc_upsert"
                /\ handlers'[h] # handlers[h])
             => handlers'[h] = HandlerIdle ]_vars

\* the key is not set, every event came from a new contact and was handled
C36_Witness ==
    /\ settings.new_contact_mode = None
    /\ events = MaxEvents
    /\ \A h \in Handlers : handlers[h] = HandlerIdle
    /\ 2 \notin DOMAIN peers

\* the polling loop is inside sync_personal_to_db
C37_InSync == poll.pc \in {"sync_reset", "sync_set", "sync_delete"}

\* C37: a refresh that fails keeps the cache; on an empty cache
\* sync_personal_to_db writes nothing; and the synchronisation that follows a
\* failed refresh clears no in_personal flag and deletes no peers row
C37_FailedRefreshChangesNothing ==
    /\ [][ (syncs' # syncs /\ refresh_failed') => personal_cache' = personal_cache ]_vars
    /\ [][ (poll.pc = "sync_reset" /\ poll' # poll /\ personal_cache = {})
             => peers' = peers /\ poll'.pc = "synced" ]_vars
    /\ [][ (refresh_failed /\ C37_InSync /\ poll' # poll) => peers' = peers ]_vars

\* the two statements about the refresh and about the empty cache on their own
C37_CacheKeptAndEmptySkipped ==
    /\ [][ (syncs' # syncs /\ refresh_failed') => personal_cache' = personal_cache ]_vars
    /\ [][ (poll.pc = "sync_reset" /\ poll' # poll /\ personal_cache = {})
             => peers' = peers /\ poll'.pc = "synced" ]_vars

\* after a failed refresh the synchronisation ran on the cache of the refresh
\* before: the row of a contact who wrote since then is gone
C37_DeletedAfterFailedRefresh ==
    /\ refresh_failed
    /\ poll.pc = "synced"
    /\ personal_cache = {1}
    /\ next_id > FirstNewId
    /\ 2 \notin DOMAIN peers

\* places a..b of the keyword list are one entry: no comma inside, a comma or
\* an end of the list on either side
C38_IsEntry(kws, a, b) ==
    /\ \A i \in a..b : kws[i] # ","
    /\ a = 1 \/ kws[a - 1] = ","
    /\ b = Len(kws) \/ kws[b + 1] = ","

\* places i..j of the entry a..b are what is left of it without the
\* whitespace around, and that is not empty
C38_IsTrimmed(kws, a, b, i, j) ==
    /\ a <= i /\ i <= j /\ j <= b
    /\ kws[i] # " " /\ kws[j] # " "
    /\ \A k \in a..b : (k < i \/ k > j) => kws[k] = " "

\* word occurs in text at place n, letter case apart
C38_OccursAt(word, text, n) ==
    /\ n + Len(word) - 1 <= Len(text)
    /\ \A k \in 1..Len(word) : LowerChar(word[k]) = LowerChar(text[n + k - 1])

C38_SomeEntryInText(kws, text) ==
    \E a, b, i, j \in 1..Len(kws) :
      /\ C38_IsEntry(kws, a, b)
      /\ C38_IsTrimmed(kws, a, b, i, j)
      /\ \E n \in 1..Len(text) : C38_OccursAt(SubSeq(kws, i, j), text, n)

\* C38: with the keyword trigger on, the pre-checks passed and neither the
\* mention nor the reply trigger firing, check_chat_triggers returns "keyword"
\* exactly when an entry of the comma-separated list, trimmed, is not empty
\* and occurs in the message text whatever the letter case; otherwise None
C38_KeywordIffEntryInText ==
    ( /\ FnDone("check_chat_triggers")
      /\ PreChecksPass(fn.args)
      /\ fn.args.triggers.trigger_keywords
      /\ ~TriggerHolds(fn.args, "mention")
      /\ ~TriggerHolds(fn.args, "reply") )
    => /\ fn.out \in {"keyword", None}
       /\ fn.out = "keyword"
            <=> C38_SomeEntryInText(fn.args.triggers.keywords, fn.args.message_text)

\* the list " A, b" fired on the text "b", with the mention trigger off
\* although the message is a mention
C38_Witness ==
    /\ FnDone("check_chat_triggers")
    /\ PreChecksPass(fn.args)
    /\ fn.args.triggers.trigger_keywords
    /\ ~fn.args.triggers.trigger_mention /\ fn.args.is_mention
    /\ ~TriggerHolds(fn.args, "reply")
    /\ fn.args.triggers.keywords = <<" ", "A", ",", " ", "b">>
    /\ fn.args.message_text = <<"b">>
    /\ fn.out = "keyword"

\* the keyword "a" fired on the text "xA"
C38_OtherCaseFires ==
    /\ FnDone("check_chat_triggers")
    /\ PreChecksPass(fn.args)
    /\ fn.args.triggers.keywords = <<"a">>
    /\ fn.args.message_text = <<"x", "A">>
    /\ fn.out = "keyword"

\* a list of commas and blanks did not fire on a text of a blank and a comma
C38_BlankListSilent ==
    /\ FnDone("check_chat_triggers")
    /\ PreChecksPass(fn.args)
    /\ fn.args.triggers.trigger_keywords
    /\ fn.args.triggers.keywords = <<",", " ", ",">>
    /\ fn.args.message_text = <<" ", ",">>
    /\ fn.out = None

\* C39: whatever the decoded output, the text generate_response returns
\* contains none of the control tokens
C39_NoControlTokenReturned ==
    FnDone("generate_response") =>
      \A token \in SPECIAL_TOKENS : Occurrences(token, fn.out) = {}

\* removing "<s>" from "<s<s>>" put a "<s>" together
C39_TokenPutTogether ==
    /\ FnDone("generate_response")
    /\ fn.args.response = <<"<", "s">> \o S_OPEN \o <<">">>
    /\ fn.out = S_OPEN

\* a token that is in the output as such is removed
C39_PlainTokensRemoved ==
    (FnDone("generate_response")
       /\ \E a, b \in {<<>>, <<"x">>}, token \in SPECIAL_TOKENS :
            fn.args.response = a \o token \o b)
    => \A token \in SPECIAL_TOKENS : Occurrences(token, fn.out) = {}

\* C40: the text generate_response returns has at least 2 characters: when
\* the cleaned answer is shorter, one of FALLBACK_RESPONSES is returned, and
\* each of these has at least 2 characters
C40_NeverShorterThanMinimum ==
    /\ \A phrase \in FALLBACK_RESPONSES : CharLen(phrase) >= MinAnswerLen
    /\ FnDone("generate_response") =>
         /\ CharLen(fn.out) >= MinAnswerLen
         /\ CharLen(CleanAnswer(fn.args.response)) < MinAnswerLen
              => fn.out \in FALLBACK_RESPONSES

\* the assistant's turn was the one character "x" before the end token: a
\* canned phrase was returned
C40_Witness ==
    /\ FnDone("generate_response")
    /\ fn.args.response = AssistantTag \o <<"\n", "x">> \o IM_END
    /\ CleanAnswer(fn.args.response) = <<"x">>
    /\ fn.out \in FALLBACK_RESPONSES

====
